---- MODULE Spec2Model ----
(***************************************************************************)
(* Binned joint/marginal precipitation statistics                          *)
(* (notebooks/V2_4_calc_save_binned_stats.ipynb): bin edges, bin indices,  *)
(* the single-pass accumulation kernel and the builder around it.          *)
(*                                                                         *)
(* The arrays of the notebook are numpy float64 arrays, so the model       *)
(* carries IEEE-754 binary64 values: a finite value is sign * m * 2^e with *)
(* m a 53-bit natural number kept as a sequence of 15-bit limbs (TLC's     *)
(* integers are 32 bits wide), and every arithmetic step rounds to nearest *)
(* even exactly as the hardware does.  Exponent range and subnormals are   *)
(* not modelled (no value of the model comes near them).                   *)
(***************************************************************************)
EXTENDS Integers, Sequences, FiniteSets, TLC

-----------------------------------------------------------------------------
(* Natural numbers of any size: little-endian sequences of limbs, without  *)
(* leading (high) zero limbs; <<>> is zero.                                *)

LimbBase == 2^15

RECURSIVE BNorm(_)
BNorm(x) ==
  IF x = <<>> THEN <<>>
  ELSE IF x[Len(x)] = 0 THEN BNorm(SubSeq(x, 1, Len(x) - 1)) ELSE x

RECURSIVE BFromInt(_)
BFromInt(n) ==
  IF n = 0 THEN <<>> ELSE <<n % LimbBase>> \o BFromInt(n \div LimbBase)

RECURSIVE BToInt(_)
BToInt(x) ==
  IF x = <<>> THEN 0 ELSE Head(x) + LimbBase * BToInt(Tail(x))

RECURSIVE BAddC(_, _, _)
BAddC(x, y, c) ==
  IF x = <<>> /\ y = <<>> THEN (IF c = 0 THEN <<>> ELSE <<c>>)
  ELSE LET a == IF x = <<>> THEN 0 ELSE Head(x)
           b == IF y = <<>> THEN 0 ELSE Head(y)
           t == a + b + c
       IN  <<t % LimbBase>> \o
           BAddC(IF x = <<>> THEN <<>> ELSE Tail(x),
                 IF y = <<>> THEN <<>> ELSE Tail(y),
                 t \div LimbBase)

BAdd(x, y) == BAddC(x, y, 0)

RECURSIVE BSubB(_, _, _)
BSubB(x, y, b) ==
  IF x = <<>> THEN <<>>
  ELSE LET t == Head(x) - (IF y = <<>> THEN 0 ELSE Head(y)) - b
       IN  <<IF t < 0 THEN t + LimbBase ELSE t>> \o
           BSubB(Tail(x), IF y = <<>> THEN <<>> ELSE Tail(y),
                 IF t < 0 THEN 1 ELSE 0)

\* x - y for x >= y
BSub(x, y) == BNorm(BSubB(x, y, 0))

RECURSIVE BCmp(_, _)
BCmp(x, y) ==
  IF Len(x) # Len(y) THEN (IF Len(x) < Len(y) THEN -1 ELSE 1)
  ELSE IF x = <<>> THEN 0
  ELSE IF x[Len(x)] # y[Len(y)]
       THEN (IF x[Len(x)] < y[Len(y)] THEN -1 ELSE 1)
  ELSE BCmp(SubSeq(x, 1, Len(x) - 1), SubSeq(y, 1, Len(y) - 1))

RECURSIVE BMulC(_, _, _)
BMulC(x, c, k) ==
  IF x = <<>> THEN (IF k = 0 THEN <<>> ELSE <<k>>)
  ELSE LET t == Head(x) * c + k
       IN  <<t % LimbBase>> \o BMulC(Tail(x), c, t \div LimbBase)

\* x * c for 0 <= c <= LimbBase
BMulSmall(x, c) == BNorm(BMulC(x, c, 0))

RECURSIVE BDivR(_, _, _)
BDivR(x, c, r) ==
  IF x = <<>> THEN <<>>
  ELSE LET t == r * LimbBase + x[Len(x)]
       IN  BDivR(SubSeq(x, 1, Len(x) - 1), c, t % c) \o <<t \div c>>

\* floor(x / c) for 0 < c <= LimbBase
BDivSmall(x, c) == BNorm(BDivR(x, c, 0))

BShl(x, k) ==
  IF x = <<>> THEN <<>>
  ELSE [j \in 1..(k \div 15) |-> 0] \o BMulSmall(x, 2^(k % 15))

BShr(x, k) ==
  IF k \div 15 >= Len(x) THEN <<>>
  ELSE BDivSmall(SubSeq(x, (k \div 15) + 1, Len(x)), 2^(k % 15))

BitLen(x) ==
  IF x = <<>> THEN 0
  ELSE 15 * (Len(x) - 1)
       + (CHOOSE k \in 1..15 : 2^(k-1) <= x[Len(x)] /\ x[Len(x)] < 2^k)

BOdd(x) == x # <<>> /\ x[1] % 2 = 1

-----------------------------------------------------------------------------
(* binary64 values.  k is "fin", "nan" or "inf"; a finite value is         *)
(* s * m * 2^e with s in {-1,0,1} and, unless it is zero, 2^52 <= m < 2^53.*)

MantBits == 53

FZero == [k |-> "fin", s |-> 0, m |-> <<>>, e |-> 0]
FNaN  == [k |-> "nan", s |-> 0, m |-> <<>>, e |-> 0]
FInf(sgn) == [k |-> "inf", s |-> sgn, m |-> <<>>, e |-> 0]

\* s * (M + f) * 2^e rounded to nearest, ties to even, where 0 <= f < 1 and
\* sticky says f > 0 (sticky only with BitLen(M) > MantBits + 1)
FRound(s, M, e, sticky) ==
  IF M = <<>> \/ s = 0 THEN FZero
  ELSE LET n == BitLen(M) IN
       IF n <= MantBits
       THEN [k |-> "fin", s |-> s, m |-> BShl(M, MantBits - n),
             e |-> e - (MantBits - n)]
       ELSE LET d    == n - MantBits
                q    == BShr(M, d)
                r    == BSub(M, BShl(q, d))
                c    == BCmp(r, BShl(<<1>>, d - 1))
                up   == c > 0 \/ (c = 0 /\ (sticky \/ BOdd(q)))
                q1   == IF up THEN BAdd(q, <<1>>) ELSE q
            IN  IF BitLen(q1) > MantBits
                THEN [k |-> "fin", s |-> s, m |-> BShr(q1, 1), e |-> e + d + 1]
                ELSE [k |-> "fin", s |-> s, m |-> q1, e |-> e + d]

\* the float of an integer literal n, |n| < 2^31
FInt(n) ==
  FRound(IF n < 0 THEN -1 ELSE IF n = 0 THEN 0 ELSE 1,
         BFromInt(IF n < 0 THEN -n ELSE n), 0, FALSE)

FNeg(a) == [a EXCEPT !.s = -a.s]

FAdd(a, b) ==
  IF a.k = "nan" \/ b.k = "nan" THEN FNaN
  ELSE IF a.k = "inf" /\ b.k = "inf" THEN (IF a.s = b.s THEN a ELSE FNaN)
  ELSE IF a.k = "inf" THEN a
  ELSE IF b.k = "inf" THEN b
  ELSE IF a.s = 0 THEN b
  ELSE IF b.s = 0 THEN a
  ELSE LET e == IF a.e < b.e THEN a.e ELSE b.e
           A == BShl(a.m, a.e - e)
           B == BShl(b.m, b.e - e)
           c == BCmp(A, B)
       IN  IF a.s = b.s THEN FRound(a.s, BAdd(A, B), e, FALSE)
           ELSE IF c = 0 THEN FZero
           ELSE IF c > 0 THEN FRound(a.s, BSub(A, B), e, FALSE)
           ELSE FRound(b.s, BSub(B, A), e, FALSE)

FSub(a, b) == FAdd(a, FNeg(b))

\* x * y
RECURSIVE BMul(_, _)
BMul(x, y) ==
  IF y = <<>> THEN <<>>
  ELSE BNorm(BAdd(BMulSmall(x, Head(y)), <<0>> \o BMul(x, Tail(y))))

\* a ** 2 of a float64 scalar: the C library's pow, which does not promise
\* the nearest float; the result is the exact square when that is a float,
\* and else one of the two floats next to it
Pow2(a) ==
  IF a.k = "nan" THEN {FNaN}
  ELSE IF a.k = "inf" THEN {FInf(1)}
  ELSE IF a.s = 0 THEN {FZero}
  ELSE LET M    == BMul(a.m, a.m)
           d    == BitLen(M) - MantBits
           q    == BShr(M, d)
           q1   == BAdd(q, <<1>>)
           down == [k |-> "fin", s |-> 1, m |-> q, e |-> 2 * a.e + d]
           up   == IF BitLen(q1) > MantBits
                   THEN [k |-> "fin", s |-> 1, m |-> BShr(q1, 1), e |-> 2 * a.e + d + 1]
                   ELSE [k |-> "fin", s |-> 1, m |-> q1, e |-> 2 * a.e + d]
       IN  IF BShl(q, d) = M THEN {down} ELSE {down, up}

\* i * a for an integer 0 <= i <= LimbBase (exact as a float)
FMulInt(i, a) ==
  IF a.k # "fin" THEN (IF i = 0 THEN FNaN ELSE a)
  ELSE FRound(a.s, BMulSmall(a.m, i), a.e, FALSE)

\* floor(ma * 2^n / mb) and whether the division left a remainder, by
\* shift-and-subtract; st = <<quotient so far, remainder so far>>
RECURSIVE BLongDiv(_, _, _)
BLongDiv(st, mb, n) ==
  IF n = 0 THEN st
  ELSE LET r2 == BMulSmall(st[2], 2)
           q2 == BMulSmall(st[1], 2)
       IN  IF BCmp(r2, mb) >= 0
           THEN BLongDiv(<<BAdd(q2, <<1>>), BSub(r2, mb)>>, mb, n - 1)
           ELSE BLongDiv(<<q2, r2>>, mb, n - 1)

FDiv(a, b) ==
  IF a.k = "nan" \/ b.k = "nan" THEN FNaN
  ELSE IF a.k = "inf" THEN (IF b.k = "inf" THEN FNaN
                            ELSE FInf(IF b.s < 0 THEN -a.s ELSE a.s))
  ELSE IF b.k = "inf" THEN FZero
  ELSE IF b.s = 0 THEN (IF a.s = 0 THEN FNaN ELSE FInf(a.s))
  ELSE IF a.s = 0 THEN FZero
  ELSE IF b.m = BShl(<<1>>, MantBits - 1)     \* a power of two: exact
       THEN [a EXCEPT !.s = a.s * b.s, !.e = a.e - b.e - (MantBits - 1)]
  ELSE LET st0 == IF BCmp(a.m, b.m) >= 0 THEN <<<<1>>, BSub(a.m, b.m)>>
                  ELSE <<<<>>, a.m>>
           qr  == BLongDiv(st0, b.m, MantBits + 3)
       IN  FRound(a.s * b.s, qr[1], a.e - b.e - (MantBits + 3), qr[2] # <<>>)

\* the float of the decimal literal n/d (d a power of ten): the literal is
\* rounded to nearest, as the quotient of two exact floats is
Dec(n, d) == FDiv(FInt(n), FInt(d))

\* -1, 0, 1 for finite a <, =, > finite b
FCmp(a, b) ==
  IF a.s # b.s THEN (IF a.s < b.s THEN -1 ELSE 1)
  ELSE IF a.s = 0 THEN 0
  ELSE LET c == IF a.e # b.e THEN (IF a.e < b.e THEN -1 ELSE 1)
                ELSE BCmp(a.m, b.m)
       IN  a.s * c

\* a > b as numpy/C compares floats (false when either is NaN)
FGreater(a, b) ==
  IF a.k = "nan" \/ b.k = "nan" THEN FALSE
  ELSE IF a.k = "inf" THEN (a.s > 0 /\ ~(b.k = "inf" /\ b.s > 0))
  ELSE IF b.k = "inf" THEN b.s < 0
  ELSE FCmp(a, b) > 0

\* np.isfinite
IsFinite(a) == a.k = "fin"

\* the float next to the nonzero finite float a: the next greater one for
\* u = 1, the next smaller one for u = -1
NextFloat(a, u) ==
  IF u * a.s > 0 THEN FRound(a.s, BAdd(a.m, <<1>>), a.e, FALSE)
  ELSE IF a.m = BShl(<<1>>, MantBits - 1)
       THEN [a EXCEPT !.m = BSub(BShl(a.m, 1), <<1>>), !.e = a.e - 1]
       ELSE [a EXCEPT !.m = BSub(a.m, <<1>>)]

\* a literal of the configuration or of the input: <<n, d>> is the number
\* n/d as Python/numpy reads it (rounded to the nearest float); d = 0 marks
\* the non-finite values <<0,0>> = nan, <<1,0>> = inf, <<-1,0>> = -inf.
\* <<n, d, u>> is a literal of 17 significant digits that reads as the float
\* next to n/d: <<1, 1, 1>> is 1.0000000000000002, <<3, 10, 1>> is
\* 0.30000000000000004, <<1, 1, -1>> is 0.9999999999999999
Val(l) ==
  IF l[2] = 0 THEN (IF l[1] = 0 THEN FNaN ELSE FInf(l[1]))
  ELSE IF Len(l) = 2 THEN Dec(l[1], l[2])
  ELSE NextFloat(Dec(l[1], l[2]), l[3])

Int32Max == 2147483647
Int32Min == -2147483647 - 1

\* what the cast of a value outside int32 (or NaN) leaves: the C cast is
\* undefined there; x86-64 builds give INT_MIN, aarch64 builds saturate
\* (NaN -> 0)
CastOutOfRange(a) ==
  IF a.k = "nan" THEN {Int32Min, 0}
  ELSE IF a.s > 0 THEN {Int32Min, Int32Max}
  ELSE {Int32Min}

\* ndarray.astype(np.int32) of one float64: truncation toward zero; the
\* set of results the build can produce
AsInt32(a) ==
  IF a.k # "fin" THEN CastOutOfRange(a)
  ELSE IF a.s = 0 THEN {0}
  ELSE IF a.e >= 0 THEN CastOutOfRange(a)
  ELSE LET q == BShr(a.m, -a.e) IN
       IF BitLen(q) <= 31 THEN {a.s * BToInt(q)}
       ELSE IF a.s < 0 /\ q = <<0, 0, 2>> THEN {Int32Min}
       ELSE CastOutOfRange(a)

\* whether finite a has a fractional part
HasFraction(a) ==
  a.s # 0 /\ a.e < 0 /\ BShl(BShr(a.m, -a.e), -a.e) # a.m

\* math.ceil of a finite float of magnitude below 2^31
CeilInt(a) ==
  IF a.s = 0 THEN 0
  ELSE LET t == BToInt(IF a.e >= 0 THEN BShl(a.m, a.e) ELSE BShr(a.m, -a.e))
       IN  IF a.s < 0 THEN -t ELSE IF HasFraction(a) THEN t + 1 ELSE t

\* np.floor of a finite float of magnitude below 2^31, as an integer
FloorInt(a) ==
  IF a.s = 0 THEN 0
  ELSE LET t == BToInt(IF a.e >= 0 THEN BShl(a.m, a.e) ELSE BShr(a.m, -a.e))
       IN  IF a.s > 0 THEN t ELSE IF HasFraction(a) THEN -t - 1 ELSE -t

-----------------------------------------------------------------------------
(* User-defined configuration (numbers as the literals the notebook has).  *)

BINPARAMS ==
  [bl     |-> [min |-> <<-6, 10>>, max |-> <<1, 10>>, width |-> <<25, 10000>>],
   cape   |-> [min |-> <<-70, 1>>, max |-> <<20, 1>>, width |-> <<1, 1>>],
   subsat |-> [min |-> <<-20, 1>>, max |-> <<70, 1>>, width |-> <<1, 1>>]]

PRTHRESH == <<1, 4>>

Half == Val(<<1, 2>>)

-----------------------------------------------------------------------------
(* get_bin_edges: np.arange(min, max+width, width).  numpy takes the       *)
(* length ceil((stop-start)/step), or 1 when a nonzero stop-start gives a  *)
(* quotient +0, stores start and start+step, and fills element j >= 2 with *)
(* start + j*delta, delta = (start+step) - start.                          *)

\* what a call of np.arange that raises leaves in place of its array: one
\* element that is no number but the name of the exception
Raised(name) == <<[k |-> name, s |-> 0, m |-> <<>>, e |-> 0]>>

\* whether x is what a call that raised has left
Raises(x) ==
  Len(x) = 1 /\ x[1].k \in {"ZeroDivisionError", "ValueError"}

\* whether one of the arrays of the dict b is what a raising call has left
AnyRaises(b) == \E k \in DOMAIN b : Raises(b[k])

\* the exception that leaves np.arange from the length computation, "none"
\* without one: the quotient quot = (stop - start)/step is taken on Python
\* floats, which raise on a zero divisor; a length that is not a number
\* cannot be made an integer, and for a length that is infinite or beyond
\* 64 bits the OverflowError of the conversion is replaced by the ValueError
\* "Maximum allowed size exceeded".  Beyond 64 bits is above 2^63 or below
\* -2^63 (a quotient of exactly 2^63 is not among the values computed here)
ArangeError(quot, step) ==
  LET beyond == /\ quot.k = "fin" /\ quot.s # 0
                /\ \/ BitLen(quot.m) + quot.e > 64
                   \/ /\ BitLen(quot.m) + quot.e = 64
                      /\ quot.m # BShl(<<1>>, BitLen(quot.m) - 1)
  IN  IF step.k = "fin" /\ step.s = 0 THEN "ZeroDivisionError"
      ELSE IF quot.k = "nan" THEN "ValueError"
      ELSE IF quot.k = "inf" \/ beyond THEN "ValueError"
      ELSE "none"

\* faulty variant: the length rounded down instead of up
ArangeFloorLen(start, stop, step) ==
  LET diff  == FSub(stop, start)
      quot  == FDiv(diff, step)
      err   == ArangeError(quot, step)
      len   == IF quot.k = "fin" /\ quot.s = 0 /\ diff.s # 0
               THEN (IF diff.s * step.s < 0 THEN 0 ELSE 1)
               ELSE FloorInt(quot)
      next  == FAdd(start, step)
      delta == FSub(next, start)
  IN  IF err # "none" THEN Raised(err)
      ELSE IF len <= 0 THEN <<>>
      ELSE [j \in 1..len |->
              IF j = 1 THEN start
              ELSE IF j = 2 THEN next
              ELSE FAdd(start, FMulInt(j - 1, delta))]

\* the length is the ceil of the quotient; a quotient that is zero while
\* diff = stop - start is not (step infinite) gives one element when the
\* zero is +0 and none when it is -0
ArangeFill(start, step, diff, quot) ==
  LET err   == ArangeError(quot, step)
      len   == IF quot.k = "fin" /\ quot.s = 0 /\ diff.s # 0
               THEN (IF diff.s * step.s < 0 THEN 0 ELSE 1)
               ELSE CeilInt(quot)
      next  == FAdd(start, step)
      delta == FSub(next, start)
  IN  IF err # "none" THEN Raised(err)
      ELSE IF len <= 0 THEN <<>>
      ELSE [j \in 1..len |->
              IF j = 1 THEN start
              ELSE IF j = 2 THEN next
              ELSE FAdd(start, FMulInt(j - 1, delta))]

\* np.arange(start, stop, step): the difference and the quotient are taken
\* once, then the length and the elements
Arange(start, stop, step) ==
  ArangeFill(start, step, FSub(stop, start), FDiv(FSub(stop, start), step))

\* faulty variant: the edges of the notebook's BINPARAMS, whatever binparams
\* is given
get_bin_edgesDefault(key, binparams) ==
  LET varname == BINPARAMS[key]
  IN  Arange(Val(varname.min),
             FAdd(Val(varname.max), Val(varname.width)),
             Val(varname.width))

\* faulty variant: the range stopped at max instead of max+width
get_bin_edgesToMax(key, binparams) ==
  LET varname == binparams[key]
  IN  Arange(Val(varname.min), Val(varname.max), Val(varname.width))

get_bin_edges(key, binparams) ==
  LET varname == binparams[key]
  IN  Arange(Val(varname.min),
             FAdd(Val(varname.max), Val(varname.width)),
             Val(varname.width))

-----------------------------------------------------------------------------
(* calc_binned_stats, index computation.  The 1-D axis adds 0.5 before the *)
(* cast, both axes of the 2-D scheme subtract 0.5.                         *)

\* faulty variant: the quotient taken term by term
ScaledTermwise(v, varname) ==
  FSub(FDiv(v, Val(varname.width)), FDiv(Val(varname.min), Val(varname.width)))

Scaled(v, varname) == FDiv(FSub(v, Val(varname.min)), Val(varname.width))

blidxOf(bl, binparams) == AsInt32(FAdd(Scaled(bl, binparams.bl), Half))

\* faulty variant: the 2-D cape index taken with + 0.5
capeidxOfHalfUp(cape, binparams) == AsInt32(FAdd(Scaled(cape, binparams.cape), Half))

capeidxOf(cape, binparams) == AsInt32(FSub(Scaled(cape, binparams.cape), Half))

subsatidxOf(subsat, binparams) ==
  AsInt32(FSub(Scaled(subsat, binparams.subsat), Half))

\* the sequences that take one element of each set of a sequence of sets
RECURSIVE PickEach(_)
PickEach(sets) ==
  IF sets = <<>> THEN {<<>>}
  ELSE {<<x>> \o r : x \in Head(sets), r \in PickEach(Tail(sets))}

-----------------------------------------------------------------------------
(* fast_binned_stats.  Q0, QE, P0, PE are float64 arrays that only ever    *)
(* hold counts (exact below 2^53): they are kept as naturals.  Q1 and P1   *)
(* hold float64 sums.  A 2-D array is indexed by <<subsatidx, capeidx>>.   *)

\* faulty variant: the count arrays not cleared (they start at 1)
ZerosNotCleared(nblbins, ncapebins, nsubsatbins) ==
  LET cells == (0..(nsubsatbins - 1)) \X (0..(ncapebins - 1))
  IN  [Q0 |-> [b \in 0..(nblbins - 1) |-> 1],
       QE |-> [b \in 0..(nblbins - 1) |-> 0],
       Q1 |-> [b \in 0..(nblbins - 1) |-> FZero],
       P0 |-> [c \in cells |-> 1],
       PE |-> [c \in cells |-> 0],
       P1 |-> [c \in cells |-> FZero]]

\* faulty variant: the 2-D arrays allocated with the cape axis first
ZerosTransposed(nblbins, ncapebins, nsubsatbins) ==
  LET cells == (0..(ncapebins - 1)) \X (0..(nsubsatbins - 1))
  IN  [Q0 |-> [b \in 0..(nblbins - 1) |-> 0],
       QE |-> [b \in 0..(nblbins - 1) |-> 0],
       Q1 |-> [b \in 0..(nblbins - 1) |-> FZero],
       P0 |-> [c \in cells |-> 0],
       PE |-> [c \in cells |-> 0],
       P1 |-> [c \in cells |-> FZero]]

Zeros(nblbins, ncapebins, nsubsatbins) ==
  LET cells == (0..(nsubsatbins - 1)) \X (0..(ncapebins - 1))
  IN  [Q0 |-> [b \in 0..(nblbins - 1) |-> 0],
       QE |-> [b \in 0..(nblbins - 1) |-> 0],
       Q1 |-> [b \in 0..(nblbins - 1) |-> FZero],
       P0 |-> [c \in cells |-> 0],
       PE |-> [c \in cells |-> 0],
       P1 |-> [c \in cells |-> FZero]]

\* faulty variant: the first bin left out of the range
ValidBlPositive(blidx, nblbins) == 0 < blidx /\ blidx < nblbins

\* 0<=blidx<nblbins
ValidBl(blidx, nblbins) == 0 <= blidx /\ blidx < nblbins

\* 0<=subsatidx<nsubsatbins and 0<=capeidx<ncapebins
Valid2D(subsatidx, capeidx, nsubsatbins, ncapebins) ==
  0 <= subsatidx /\ subsatidx < nsubsatbins /\ 0 <= capeidx /\ capeidx < ncapebins

\* faulty variant: the exceedance test written with >=
ExceedsOrEqual(prval, prthresh) ==
  FGreater(prval, prthresh) \/ (IsFinite(prval) /\ FCmp(prval, prthresh) = 0)

\* prval>prthresh
Exceeds(prval, prthresh) == FGreater(prval, prthresh)

\* faulty variant: the 1-D sum assigned instead of added to
Update1DAssign(acc, blidx, prval, nblbins, prthresh) ==
  IF ValidBl(blidx, nblbins) /\ IsFinite(prval)
  THEN LET a == [acc EXCEPT !.Q0[blidx] = @ + 1, !.Q1[blidx] = prval]
       IN  IF Exceeds(prval, prthresh) THEN [a EXCEPT !.QE[blidx] = @ + 1] ELSE a
  ELSE acc

\* faulty variant: the 1-D branch without the np.isfinite test
Update1DAnyValue(acc, blidx, prval, nblbins, prthresh) ==
  IF ValidBl(blidx, nblbins)
  THEN [acc EXCEPT !.Q0[blidx] = @ + 1,
                   !.Q1[blidx] = FAdd(@, prval),
                   !.QE[blidx] = IF Exceeds(prval, prthresh) THEN @ + 1 ELSE @]
  ELSE acc

\* faulty variant: the 1-D branch with the exceedance count outside the np.isfinite
\* test
Update1DExceedFirst(acc, blidx, prval, nblbins, prthresh) ==
  IF ValidBl(blidx, nblbins)
  THEN LET a == [acc EXCEPT !.QE[blidx] =
                     IF Exceeds(prval, prthresh) THEN @ + 1 ELSE @]
       IN  IF IsFinite(prval)
           THEN [a EXCEPT !.Q0[blidx] = @ + 1, !.Q1[blidx] = FAdd(@, prval)]
           ELSE a
  ELSE acc

\* the 1-D branch of the loop body
Update1D(acc, blidx, prval, nblbins, prthresh) ==
  IF ValidBl(blidx, nblbins) /\ IsFinite(prval)
  THEN [acc EXCEPT !.Q0[blidx] = @ + 1,
                   !.Q1[blidx] = FAdd(@, prval),
                   !.QE[blidx] = IF Exceeds(prval, prthresh) THEN @ + 1 ELSE @]
  ELSE acc

\* the 2-D branch of the loop body
Update2D(acc, subsatidx, capeidx, prval, nsubsatbins, ncapebins, prthresh) ==
  IF Valid2D(subsatidx, capeidx, nsubsatbins, ncapebins) /\ IsFinite(prval)
  THEN [acc EXCEPT !.P0[<<subsatidx, capeidx>>] = @ + 1,
                   !.P1[<<subsatidx, capeidx>>] = FAdd(@, prval),
                   !.PE[<<subsatidx, capeidx>>] =
                       IF Exceeds(prval, prthresh) THEN @ + 1 ELSE @]
  ELSE acc

\* faulty variant: the 1-D branch nested inside the 2-D bounds test
AccumulateNested1D(acc, pt, nblbins, ncapebins, nsubsatbins, prthresh) ==
  IF Valid2D(pt.subsatidx, pt.capeidx, nsubsatbins, ncapebins)
  THEN Update2D(Update1D(acc, pt.blidx, pt.prval, nblbins, prthresh),
                pt.subsatidx, pt.capeidx, pt.prval, nsubsatbins, ncapebins,
                prthresh)
  ELSE acc

\* faulty variant: the 2-D branch nested inside the 1-D bounds test
AccumulateNested2D(acc, pt, nblbins, ncapebins, nsubsatbins, prthresh) ==
  IF ValidBl(pt.blidx, nblbins)
  THEN Update2D(Update1D(acc, pt.blidx, pt.prval, nblbins, prthresh),
                pt.subsatidx, pt.capeidx, pt.prval, nsubsatbins, ncapebins,
                prthresh)
  ELSE acc

\* one iteration of the loop for the point read
Accumulate(acc, pt, nblbins, ncapebins, nsubsatbins, prthresh) ==
  Update2D(Update1D(acc, pt.blidx, pt.prval, nblbins, prthresh),
           pt.subsatidx, pt.capeidx, pt.prval, nsubsatbins, ncapebins, prthresh)

\* the loop over the points pts, each [blidx, capeidx, subsatidx, prval],
\* from the accumulators acc
RECURSIVE KernelLoop(_, _, _, _, _, _)
KernelLoop(acc, pts, nblbins, ncapebins, nsubsatbins, prthresh) ==
  IF pts = <<>> THEN acc
  ELSE KernelLoop(Accumulate(acc, Head(pts), nblbins, ncapebins, nsubsatbins,
                             prthresh),
                  Tail(pts), nblbins, ncapebins, nsubsatbins, prthresh)

\* element n of the four arrays (of one length)
Points(blidxs, capeidxs, subsatidxs, prdata) ==
  [n \in 1..Len(prdata) |->
     [blidx |-> blidxs[n], capeidx |-> capeidxs[n],
      subsatidx |-> subsatidxs[n], prval |-> prdata[n]]]

\* the whole call, for arrays of one length
fast_binned_stats(blidxs, capeidxs, subsatidxs, prdata, nblbins, ncapebins, nsubsatbins, prthresh) ==
  KernelLoop(Zeros(nblbins, ncapebins, nsubsatbins),
             Points(blidxs, capeidxs, subsatidxs, prdata),
             nblbins, ncapebins, nsubsatbins, prthresh)

-----------------------------------------------------------------------------
(* calc_binned_stats as one call, and the steps of process_by_subregion.   *)
(* A point of the input Dataset is [month, lat, lon, bl, cape, subsat, pr];*)
(* a Dataset is the sequence of its points in the order of the flattened   *)
(* (time, lat, lon) arrays, which selections keep.                         *)

\* what a call that raises leaves in place of its value
Raise == [set |-> FALSE, raised |-> TRUE]

\* the Dataset calc_binned_stats builds
StatsDataset(acc, bins, prthresh) ==
  [set |-> TRUE, Q0 |-> acc.Q0, QE |-> acc.QE, Q1 |-> acc.Q1,
   P0 |-> acc.P0, PE |-> acc.PE, P1 |-> acc.P1,
   bl |-> bins.bl, cape |-> bins.cape, subsat |-> bins.subsat,
   long_name_threshold |-> prthresh]

\* faulty variant: a subset without points raises
calc_binned_statsEmptyRaises(data, binparams, prthresh) ==
  LET bins == [k \in {"bl", "cape", "subsat"} |-> get_bin_edges(k, binparams)]
      pr   == [n \in 1..Len(data) |-> Val(data[n].pr)]
  IN  IF data = <<>> \/ AnyRaises(bins) THEN {Raise}
      ELSE {StatsDataset(fast_binned_stats(b, c, s, pr, Len(bins.bl), Len(bins.cape),
                                           Len(bins.subsat), Val(PRTHRESH)),
                         bins, prthresh) :
              b \in PickEach([n \in 1..Len(data) |->
                                blidxOf(Val(data[n].bl), binparams)]),
              c \in PickEach([n \in 1..Len(data) |->
                                capeidxOf(Val(data[n].cape), binparams)]),
              s \in PickEach([n \in 1..Len(data) |->
                                subsatidxOf(Val(data[n].subsat), binparams)])}

\* the Datasets a call of calc_binned_stats can return (one, unless a cast
\* is undefined); the kernel is called without prthresh.  An exception of
\* get_bin_edges leaves the call before any index is computed
calc_binned_stats(data, binparams, prthresh) ==
  LET bins == [k \in {"bl", "cape", "subsat"} |-> get_bin_edges(k, binparams)]
      pr   == [n \in 1..Len(data) |-> Val(data[n].pr)]
  IN  IF AnyRaises(bins) THEN {Raise}
      ELSE {StatsDataset(fast_binned_stats(b, c, s, pr, Len(bins.bl), Len(bins.cape),
                                           Len(bins.subsat), Val(PRTHRESH)),
                         bins, prthresh) :
              b \in PickEach([n \in 1..Len(data) |->
                                blidxOf(Val(data[n].bl), binparams)]),
              c \in PickEach([n \in 1..Len(data) |->
                                capeidxOf(Val(data[n].cape), binparams)]),
              s \in PickEach([n \in 1..Len(data) |->
                                subsatidxOf(Val(data[n].subsat), binparams)])}

\* regions[key] of a dict kept as a sequence of [key, latmin, ...]
HasKey(regions, key) == \E n \in 1..Len(regions) : regions[n].key = key
Lookup(regions, key) ==
  regions[CHOOSE n \in 1..Len(regions) : regions[n].key = key]

\* faulty variant: the longitude slice left out
get_regionLatOnly(data, key, regions) ==
  LET region == Lookup(regions, key)
  IN  SelectSeq(data, LAMBDA p : region.latmin <= p.lat /\ p.lat <= region.latmax)

\* data.sel(lat=slice(latmin,latmax),lon=slice(lonmin,lonmax)): label
\* slices take both ends
get_region(data, key, regions) ==
  LET region == Lookup(regions, key)
  IN  SelectSeq(data, LAMBDA p : /\ region.latmin <= p.lat
                                 /\ p.lat <= region.latmax
                                 /\ region.lonmin <= p.lon
                                 /\ p.lon <= region.lonmax)

\* faulty variant: the list taken from its end
ForNextReversed(list, pos) == list[Len(list) - pos]

\* for x in list: the element the loop takes after pos elements
ForNext(list, pos) == list[pos + 1]

\* faulty variant: the time steps of every month kept
SelMonthAll(regiondata, month) == regiondata

\* faulty variant: the time steps from the month on kept
SelMonthSince(regiondata, month) == SelectSeq(regiondata, LAMBDA p : p.month >= month)

\* regiondata.sel(time=regiondata.time.dt.month==month)
SelMonth(regiondata, month) == SelectSeq(regiondata, LAMBDA p : p.month = month)

\* x.expand_dims({dim:[label]})
expand_dims(x, dim, label) == [dim |-> dim, labels |-> <<label>>, items |-> <<x>>]

RECURSIVE Flatten(_)
Flatten(ss) == IF ss = <<>> THEN <<>> ELSE Head(ss) \o Flatten(Tail(ss))

\* the sequence q in ascending order
RECURSIVE SortedSeq(_)
SortedSeq(q) ==
  IF q = <<>> THEN <<>>
  ELSE LET k == CHOOSE a \in 1..Len(q) : \A b \in 1..Len(q) : q[a] <= q[b]
       IN  <<q[k]>> \o SortedSeq([n \in 1..(Len(q) - 1) |->
                                     IF n < k THEN q[n] ELSE q[n + 1]])

\* faulty variant: the month labels put in ascending order
concatSorted(list, dim) ==
  [dim |-> dim,
   labels |-> IF dim = "month"
              THEN SortedSeq(Flatten([n \in 1..Len(list) |-> list[n].labels]))
              ELSE Flatten([n \in 1..Len(list) |-> list[n].labels]),
   items |-> Flatten([n \in 1..Len(list) |-> list[n].items])]

\* xr.concat(list,dim=dim) of a list that is not empty: the items one after
\* the other, in the order of the list
concat(list, dim) ==
  [dim |-> dim,
   labels |-> Flatten([n \in 1..Len(list) |-> list[n].labels]),
   items |-> Flatten([n \in 1..Len(list) |-> list[n].items])]


\* faulty variant: a subset whose builder call raises is skipped
MonthStepSkip(monthstatslist, monthstats, month) ==
  IF monthstats = Raise
  THEN [pc |-> "month", list |-> monthstatslist]
  ELSE [pc |-> "month",
        list |-> Append(monthstatslist, expand_dims(monthstats, "month", month))]

\* the body of the month loop after the builder call: nothing catches an
\* exception, the append follows a call that returned
MonthStep(monthstatslist, monthstats, month) ==
  IF monthstats = Raise
  THEN [pc |-> "raised", list |-> monthstatslist]
  ELSE [pc |-> "month",
        list |-> Append(monthstatslist, expand_dims(monthstats, "month", month))]

\* the lists of month records the month loop can build for one region
RECURSIVE MonthRecords(_, _, _, _)
MonthRecords(regiondata, months, binparams, prthresh) ==
  IF months = <<>> THEN {<<>>}
  ELSE {<<expand_dims(x, "month", Head(months))>> \o rest :
          x \in calc_binned_stats(SelMonth(regiondata, Head(months)),
                                  binparams, prthresh),
          rest \in MonthRecords(regiondata, Tail(months), binparams, prthresh)}

\* the lists of region records the region loop can build (months not empty)
RECURSIVE RegionRecords(_, _, _, _, _, _)
RegionRecords(ds, months, regions, REGIONS, binparams, prthresh) ==
  IF regions = <<>> THEN {<<>>}
  ELSE {<<expand_dims(concat(ml, "month"), "region", Head(regions).key)>> \o rest :
          ml \in MonthRecords(get_region(ds, Head(regions).key, REGIONS),
                              months, binparams, prthresh),
          rest \in RegionRecords(ds, months, Tail(regions), REGIONS,
                                 binparams, prthresh)}

\* the products process_by_subregion(ds,months,regions) can return when no
\* call raises (regions and months not empty); get_region reads REGIONS, the
\* builder binparams and prthresh
process_by_subregion(ds, months, regions, REGIONS, binparams, prthresh) ==
  {concat(rl, "region") :
     rl \in RegionRecords(ds, months, regions, REGIONS, binparams, prthresh)}

-----------------------------------------------------------------------------
(* The earlier revision of calc_binned_stats (3_copy_calc_save_stats): the *)
(* accumulation is an explicit loop over timeidx, latidx, lonidx on 3-D    *)
(* arrays, with the sums of squares Q2 and P2 next to the six arrays.      *)

\* the eight np.zeros of the earlier revision
RevisionZeros(nbl, ncape, nsubsat) ==
  LET cells == (0..(nsubsat - 1)) \X (0..(ncape - 1))
  IN  [Q0 |-> [b \in 0..(nbl - 1) |-> 0],
       Q1 |-> [b \in 0..(nbl - 1) |-> FZero],
       Q2 |-> [b \in 0..(nbl - 1) |-> FZero],
       QE |-> [b \in 0..(nbl - 1) |-> 0],
       P0 |-> [c \in cells |-> 0],
       P1 |-> [c \in cells |-> FZero],
       P2 |-> [c \in cells |-> FZero],
       PE |-> [c \in cells |-> 0]]

\* the body of the innermost loop for the element p = [blidx, capeidx,
\* subsatidx, prval] read at [timeidx,latidx,lonidx], sq the value of
\* prval**2
RevisionBodyWith(a, p, nbl, ncape, nsubsat, thresh, sq) ==
  LET validpr     == IsFinite(p.prval)
      validbl     == 0 <= p.blidx /\ p.blidx < nbl
      validcape   == 0 <= p.capeidx /\ p.capeidx < ncape
      validsubsat == 0 <= p.subsatidx /\ p.subsatidx < nsubsat
      cell        == <<p.subsatidx, p.capeidx>>
      a1 == IF validbl /\ validpr
            THEN [a EXCEPT !.Q0[p.blidx] = @ + 1,
                           !.Q1[p.blidx] = FAdd(@, p.prval),
                           !.Q2[p.blidx] = FAdd(@, sq),
                           !.QE[p.blidx] =
                              IF FGreater(p.prval, thresh) THEN @ + 1 ELSE @]
            ELSE a
  IN  IF validcape /\ validsubsat /\ validpr
      THEN [a1 EXCEPT !.P0[cell] = @ + 1,
                      !.P1[cell] = FAdd(@, p.prval),
                      !.P2[cell] = FAdd(@, sq),
                      !.PE[cell] =
                         IF FGreater(p.prval, thresh) THEN @ + 1 ELSE @]
      ELSE a1

\* the arrays the body can leave: one for each value prval**2 can have
RevisionBody(a, p, nbl, ncape, nsubsat, thresh) ==
  {RevisionBodyWith(a, p, nbl, ncape, nsubsat, thresh, sq) : sq \in Pow2(p.prval)}

\* faulty variant: the elements taken with the latitude index running
\* fastest
FlatLatFastest(arr) ==
  LET nt == Len(arr)
      nlat == Len(arr[1])
      nlon == Len(arr[1][1])
  IN  [n \in 1..(nt * nlat * nlon) |->
         arr[((n - 1) \div (nlat * nlon)) + 1]
            [((n - 1) % nlat) + 1]
            [(((n - 1) \div nlat) % nlon) + 1]]

\* arr.flat of a 3-D array [time][lat][lon] (at least one element): the
\* elements in C order, the last index running fastest
Flat(arr) ==
  LET nt == Len(arr)
      nlat == Len(arr[1])
      nlon == Len(arr[1][1])
  IN  [n \in 1..(nt * nlat * nlon) |->
         arr[((n - 1) \div (nlat * nlon)) + 1]
            [(((n - 1) \div nlon) % nlat) + 1]
            [((n - 1) % nlon) + 1]]

-----------------------------------------------------------------------------
(* State.                                                                  *)

VARIABLES
  pc,          \* where the computation stands
  caller,      \* "builder": the kernel was called by calc_binned_stats;
               \* "direct": it was called on its own
  binparams,   \* calc_binned_stats / get_bin_edges argument
  data,        \* calc_binned_stats argument: the points of the subset, each
               \* [bl, cape, subsat, pr] (literals)
  prthresh,    \* calc_binned_stats argument
  bins,        \* calc_binned_stats local: the edges of the three axes
  blidxs, capeidxs, subsatidxs, prdata,    \* kernel arguments (arrays)
  nblbins, ncapebins, nsubsatbins,         \* kernel arguments
  kthresh,     \* kernel argument prthresh
  size,        \* prdata.size
  i,           \* kernel loop variable
  pt,          \* kernel locals blidx, capeidx, subsatidx, prval of iteration i
  acc,         \* kernel locals Q0, QE, Q1, P0, PE, P1
  ds,          \* the Dataset calc_binned_stats returns
  key,         \* get_bin_edges argument
  edges,       \* get_bin_edges result
  probe,       \* a value binned on axis key
  idx,         \* its bin index
  REGIONS,     \* the configured regions: a sequence (dict order) of
               \* [key, latmin, latmax, lonmin, lonmax]
  regions,     \* process_by_subregion argument (default REGIONS)
  months,      \* process_by_subregion argument (default MONTHS)
  dataset,     \* process_by_subregion argument ds: the grid points in the
               \* order of the flattened (time, lat, lon) arrays
  regionpos, monthpos,   \* regions and months the loops have taken so far
  regiondata,  \* process_by_subregion local
  monthdata,   \* process_by_subregion local: the subset given to the builder
  monthstatslist, regionstatslist,    \* process_by_subregion locals
  product,     \* what process_by_subregion returns
  failat,      \* the builder call that raises (0: none does)
  calls,       \* builder calls made so far
  called,      \* the <<region, month>> of each of them, in call order
  tasks,       \* the builder invocations of a run that takes the subsets
               \* side by side
  grid,        \* earlier revision: the 3-D arrays, grid[timeidx + 1]
               \* [latidx + 1][lonidx + 1] = [blidx, capeidx, subsatidx, prval]
  nested       \* earlier revision: its eight arrays and its loop indices

vars == <<pc, caller, binparams, data, prthresh, bins, blidxs, capeidxs,
          subsatidxs, prdata, nblbins, ncapebins, nsubsatbins, kthresh, size,
          i, pt, acc, ds, key, edges, probe, idx, REGIONS, regions, months,
          dataset, regionpos, monthpos, regiondata, monthdata, monthstatslist,
          regionstatslist, product, failat, calls, called, tasks, grid,
          nested>>

builderVars == <<binparams, data, prthresh, bins, ds>>
arrayVars   == <<blidxs, capeidxs, subsatidxs, prdata>>
shapeVars   == <<nblbins, ncapebins, nsubsatbins, kthresh, size>>
edgeVars    == <<key, edges, probe, idx>>
revisionVars == <<grid, nested>>
configVars  == <<REGIONS, regions, months, dataset, failat>>
loopVars    == <<regionpos, monthpos, regiondata, monthdata, monthstatslist,
                 regionstatslist, product, calls, called>>
processVars == <<configVars, loopVars, tasks, revisionVars>>

NoPoint == [blidx |-> 0, capeidx |-> 0, subsatidx |-> 0, prval |-> FZero]
NoAcc   == Zeros(0, 0, 0)
NoDs    == [set |-> FALSE]
NoProduct == [set |-> FALSE]
NoNested  == [set |-> FALSE]

\* process_by_subregion is not running
NoProcess ==
  /\ REGIONS = <<>> /\ regions = <<>> /\ months = <<>> /\ dataset = <<>>
  /\ regionpos = 0 /\ monthpos = 0 /\ regiondata = <<>> /\ monthdata = <<>>
  /\ monthstatslist = <<>> /\ regionstatslist = <<>> /\ product = NoProduct
  /\ failat = 0 /\ calls = 0 /\ called = <<>> /\ tasks = <<>>

\* the earlier revision is not running
NoRevision == grid = <<>> /\ nested = NoNested

-----------------------------------------------------------------------------
(* Bounds and input domains.                                               *)

MaxPoints == 2      \* points of a direct kernel call
MaxBins   == 2      \* bins per axis of a direct kernel call
MaxData   == 2      \* points of a subset given to calc_binned_stats
MaxSpan   == 12     \* (max - min) of a generated BinSpecification, in tenths

MaxArray  == 3      \* length of the arrays given to the kernel
MaxChunks == 2      \* chunks the points of a pass are split into

NaNLit == <<0, 0>>
InfLit == <<1, 0>>

\* precipitation values: at and above PRTHRESH (both above the threshold 0),
\* and missing
PrLits == {<<1, 4>>, <<1, 2>>, NaNLit, InfLit}

ThreshLits == {<<0, 1>>, PRTHRESH}

\* thresholds passed to calc_binned_stats: those, and 1.0 (above every
\* precipitation value of DataPoints)
BuilderThreshLits == ThreshLits \cup {<<1, 1>>}

\* the indices a direct kernel call may hold on an axis of n bins: one below
\* the first bin, the first bin, the last bin, one past the last bin
EdgeIdxs(n) == {-1, 0, n - 1, n}

\* the points a direct kernel call may hold
KernelPoints(nbl, ncape, nsubsat) ==
  [blidx : EdgeIdxs(nbl), capeidx : EdgeIdxs(ncape), subsatidx : EdgeIdxs(nsubsat),
   prval : {Val(l) : l \in PrLits}]

\* a small configuration with exactly representable numbers: bl edges
\* -1, -0.5, 0; cape edges 0, 1; subsat edges 0, 1, 2
SmallParams ==
  [bl     |-> [min |-> <<-1, 1>>, max |-> <<0, 1>>, width |-> <<1, 2>>],
   cape   |-> [min |-> <<0, 1>>, max |-> <<1, 1>>, width |-> <<1, 1>>],
   subsat |-> [min |-> <<0, 1>>, max |-> <<2, 1>>, width |-> <<1, 1>>]]

\* points of a subset: bl two widths, one width and none below min, at max
\* and past the last bin; cape and subsat at min, below it and inside
DataPoints ==
  { [bl |-> b, cape |-> c[1], subsat |-> c[2], pr |-> p] :
      b \in {<<-2, 1>>, <<-3, 2>>, <<-1, 1>>, <<0, 1>>, <<1, 2>>},
      c \in {<<<<0, 1>>, <<0, 1>>>>, <<<<-1, 1>>, <<1, 1>>>>,
             <<<<2, 1>>, <<3, 1>>>>},
      p \in {<<1, 2>>, NaNLit} }

RECURSIVE SeqsUpTo(_, _)
SeqsUpTo(S, n) ==
  IF n = 0 THEN {<<>>}
  ELSE LET shorter == SeqsUpTo(S, n - 1)
       IN  shorter \cup {Append(q, x) : q \in {r \in shorter : Len(r) = n - 1},
                                         x \in S}

\* BinSpecifications in tenths, and the notebook's own
TenthSpecs ==
  { [min |-> <<a, 10>>, max |-> <<a + sp, 10>>, width |-> <<w, 10>>] :
      a \in {-11, -6, 0, 10}, w \in {1, 3, 4, 5, 10}, sp \in 1..MaxSpan }

\* BinSpecifications np.arange has no length for: a zero width, a max that
\* is not a number, an infinite max
NoLengthSpecs ==
  { [min |-> <<0, 1>>, max |-> <<1, 1>>, width |-> <<0, 1>>],
    [min |-> <<0, 1>>, max |-> <<0, 0>>, width |-> <<1, 1>>],
    [min |-> <<0, 1>>, max |-> <<1, 0>>, width |-> <<1, 1>>] }

\* BinSpecifications whose max is the float next to one a whole number of
\* widths above min, on either side
NextToWholeSpecs ==
  { [min |-> t.min, max |-> <<t.max[1], t.max[2], u>>, width |-> t.width] :
      t \in {r \in TenthSpecs : r.max[1] # 0
                                /\ (r.max[1] - r.min[1]) % r.width[1] = 0},
      u \in {-1, 1} }

EdgeParams ==
  {BINPARAMS} \cup {[bl |-> t, cape |-> t, subsat |-> t] : t \in TenthSpecs \cup NextToWholeSpecs \cup NoLengthSpecs}

\* values binned on their own
ProbeLits ==
  {<<-6, 10>>, <<-59875, 100000>>, <<-6025, 10000>>, <<-11, 10>>, <<0, 1>>,
   <<-70, 1>>, <<13, 10>>}

\* values about the upper end of an axis: the middle, max, max + width/4 and
\* max + width/2
AxisProbes(varname) ==
  LET min == varname.min
      max == varname.max
      w   == varname.width
  IN  {max,
       <<min[1] * max[2] + max[1] * min[2], 2 * min[2] * max[2]>>,
       <<4 * max[1] * w[2] + w[1] * max[2], 4 * max[2] * w[2]>>,
       <<2 * max[1] * w[2] + w[1] * max[2], 2 * max[2] * w[2]>>}

\* the values binned on axis key: the 2-D axes also about their upper end
Probes(axis, params) ==
  IF axis = "bl" THEN ProbeLits ELSE ProbeLits \cup AxisProbes(params[axis])

MONTHS == <<6, 7, 8>>

MaxTimes  == 2      \* time steps of the input Dataset

\* the input Datasets: a 2 x 2 grid (lat, lon in {0, 1}) over MaxTimes time
\* steps, one step a month from June on, and three fields of values on it
BlLits == <<<<-2, 1>>, <<-3, 2>>, <<-1, 1>>, <<0, 1>>, <<1, 2>>>>
CapeSubsatLits == <<<<<<0, 1>>, <<0, 1>>>>, <<<<-1, 1>>, <<1, 1>>>>,
                    <<<<2, 1>>, <<3, 1>>>>, <<<<1, 1>>, <<2, 1>>>>>>
PrSeq == <<<<1, 2>>, <<1, 4>>, NaNLit>>

GridDataset(v) ==
  [k \in 1..(MaxTimes * 4) |->
     [month  |-> MONTHS[(((k - 1) \div 4) % 3) + 1],
      lat    |-> ((k - 1) \div 2) % 2,
      lon    |-> (k - 1) % 2,
      bl     |-> BlLits[((k + v) % 5) + 1],
      cape   |-> CapeSubsatLits[((k + v) % 4) + 1][1],
      subsat |-> CapeSubsatLits[((k + v) % 4) + 1][2],
      pr     |-> PrSeq[((k + 2 * v) % 3) + 1]]]

Datasets == {GridDataset(v) : v \in 0..2}

\* configured regions: two boxes that overlap; one of them with latmin >
\* latmax; none
TwoRegions ==
  <<[key |-> "A", latmin |-> 0, latmax |-> 0, lonmin |-> 0, lonmax |-> 1],
    [key |-> "B", latmin |-> 0, latmax |-> 1, lonmin |-> 1, lonmax |-> 1]>>
BadBoxRegions ==
  <<[key |-> "A", latmin |-> 1, latmax |-> 0, lonmin |-> 0, lonmax |-> 1],
    [key |-> "B", latmin |-> 0, latmax |-> 1, lonmin |-> 1, lonmax |-> 1]>>
RegionTables == {TwoRegions, BadBoxRegions, <<>>}

MonthLists == {MONTHS, <<7, 6>>, <<>>}

\* bin specifications of a run: SmallParams, and SmallParams with a negative
\* and with a zero bl width
NegWidthParams == [SmallParams EXCEPT !.bl.width = <<-1, 2>>]
ZeroWidthParams == [SmallParams EXCEPT !.bl.width = <<0, 1>>]
RunParams == {SmallParams, NegWidthParams, ZeroWidthParams}

\* precipitation values of an array-given kernel call: 0.1, 0.2, 0.3 (whose
\* float64 sum depends on the order of the additions) and missing
ArrayVals == {Val(<<1, 10>>), Val(<<2, 10>>), Val(<<3, 10>>), FNaN}

\* its points: in range on both schemes with each of the values, out of the
\* 1-D range, out of the 2-D range
ArrayPoints(ncape) ==
  {[blidx |-> 0, capeidx |-> 0, subsatidx |-> 0, prval |-> v] : v \in ArrayVals}
    \cup {[blidx |-> -1, capeidx |-> 0, subsatidx |-> 1, prval |-> Val(<<2, 10>>)],
          [blidx |-> 1, capeidx |-> ncape, subsatidx |-> 0, prval |-> Val(<<3, 10>>)]}

-----------------------------------------------------------------------------
(* calc_binned_stats on one subset (Spec), and the kernel called on its    *)
(* own (SpecKernel).                                                       *)

Idle ==
  /\ bins = <<>> /\ ds = NoDs
  /\ blidxs = <<>> /\ capeidxs = <<>> /\ subsatidxs = <<>> /\ prdata = <<>>
  /\ i = 0 /\ pt = NoPoint /\ acc = NoAcc
  /\ key = "bl" /\ edges = <<>> /\ probe = <<0, 1>> /\ idx = 0
  /\ NoProcess /\ NoRevision

Init ==
  /\ pc = "calc" /\ caller = "builder"
  /\ binparams \in {SmallParams, ZeroWidthParams}
  /\ data \in SeqsUpTo(DataPoints, MaxData)
  /\ prthresh \in BuilderThreshLits
  /\ nblbins = 0 /\ ncapebins = 0 /\ nsubsatbins = 0
  /\ kthresh = FZero /\ size = 0
  /\ Idle

InitKernel ==
  /\ pc = "enter" /\ caller = "direct"
  /\ binparams = SmallParams /\ data = <<>> /\ prthresh = PRTHRESH
  /\ nblbins = MaxBins /\ nsubsatbins = MaxBins /\ ncapebins = MaxBins - 1
  /\ kthresh \in {Val(l) : l \in ThreshLits}
  /\ size \in 0..MaxPoints
  /\ Idle

\* calc_binned_stats up to the call of the kernel: edges, indices; the call
\* passes no threshold, so the kernel runs with its default PRTHRESH.  An
\* exception of get_bin_edges ends the call
CalcBinnedStats ==
  /\ pc = "calc"
  /\ \E b \in {[k \in {"bl", "cape", "subsat"} |-> get_bin_edges(k, binparams)]} :
         IF AnyRaises(b)
         THEN /\ pc' = "raised"
              /\ UNCHANGED <<bins, arrayVars, shapeVars>>
         ELSE /\ bins' = b
              /\ blidxs' \in PickEach([n \in 1..Len(data) |->
                                         blidxOf(Val(data[n].bl), binparams)])
              /\ capeidxs' \in PickEach([n \in 1..Len(data) |->
                                           capeidxOf(Val(data[n].cape), binparams)])
              /\ subsatidxs' \in PickEach([n \in 1..Len(data) |->
                                             subsatidxOf(Val(data[n].subsat),
                                                         binparams)])
              /\ prdata' = [n \in 1..Len(data) |-> Val(data[n].pr)]
              /\ nblbins' = Len(b.bl)
              /\ ncapebins' = Len(b.cape)
              /\ nsubsatbins' = Len(b.subsat)
              /\ kthresh' = Val(PRTHRESH)
              /\ size' = Len(data)
              /\ pc' = "enter"
  /\ UNCHANGED <<caller, binparams, data, prthresh, ds, i, pt, acc, edgeVars,
                 processVars>>

\* the six np.zeros
KernelEnter ==
  /\ pc = "enter"
  /\ acc' = Zeros(nblbins, ncapebins, nsubsatbins)
  /\ i' = 0
  /\ pc' = "loop"
  /\ UNCHANGED <<caller, builderVars, arrayVars, shapeVars, pt, edgeVars,
                 processVars>>

\* element j (0-based) of an index array of the kernel: .flat[i] is not
\* bounds-checked in nopython mode, so past the end of the array the read
\* gives whatever the memory holds
IndexAt(arr, j, n) == IF j + 1 <= Len(arr) THEN {arr[j + 1]} ELSE EdgeIdxs(n)

\* the points iteration j (0-based) may read: the arrays' elements when the
\* kernel is given arrays; any point when the kernel is called on its own
\* (its arrays are read-only and each element is read once, so an element is
\* drawn when it is read)
PointAt(j) ==
  IF caller = "direct"
  THEN KernelPoints(nblbins, ncapebins, nsubsatbins)
  ELSE [blidx : IndexAt(blidxs, j, nblbins),
        capeidx : IndexAt(capeidxs, j, ncapebins),
        subsatidx : IndexAt(subsatidxs, j, nsubsatbins),
        prval : {prdata[j + 1]}]

\* one iteration of the loop
KernelStep ==
  /\ pc = "loop" /\ i < size
  /\ \E p \in PointAt(i) :
       /\ pt' = p
       /\ acc' = Accumulate(acc, p, nblbins, ncapebins, nsubsatbins, kthresh)
  /\ i' = i + 1
  /\ UNCHANGED <<pc, caller, builderVars, arrayVars, shapeVars, edgeVars,
                 processVars>>

\* return Q0,QE,Q1,P0,PE,P1
KernelReturn ==
  /\ pc = "loop" /\ i = size
  /\ pc' = "returned"
  /\ UNCHANGED <<caller, builderVars, arrayVars, shapeVars, i, pt, acc, edgeVars,
                 processVars>>

\* the Dataset: the accumulators on the edges, the threshold in QE's and
\* PE's long_name
Package ==
  /\ pc = "returned" /\ caller = "builder"
  /\ ds' = [set |-> TRUE, Q0 |-> acc.Q0, QE |-> acc.QE, Q1 |-> acc.Q1,
            P0 |-> acc.P0, PE |-> acc.PE, P1 |-> acc.P1,
            bl |-> bins.bl, cape |-> bins.cape, subsat |-> bins.subsat,
            long_name_threshold |-> prthresh]
  /\ pc' = "done"
  /\ UNCHANGED <<caller, binparams, data, prthresh, bins, arrayVars, shapeVars,
                 i, pt, acc, edgeVars, processVars>>

Next == CalcBinnedStats \/ KernelEnter \/ KernelStep \/ KernelReturn \/ Package

Spec == Init /\ [][Next]_vars

\* diagnostic values the cast cannot represent: missing and infinite values
\* and a bl value whose scaled offset is past 2^31; next to them values inside
\* the axes
NegInfLit == <<-1, 0>>
CastPoints ==
  { [bl |-> b, cape |-> c[1], subsat |-> c[2], pr |-> <<1, 2>>] :
      b \in {NaNLit, InfLit, NegInfLit, <<Int32Max, 1>>, <<-1, 2>>},
      c \in {<<<<0, 1>>, <<0, 1>>>>, <<NaNLit, NegInfLit>>, <<InfLit, NaNLit>>} }

\* calc_binned_stats on subsets that hold such values (SpecCast)
InitCast ==
  /\ pc = "calc" /\ caller = "builder"
  /\ binparams = SmallParams
  /\ data \in SeqsUpTo(CastPoints, MaxData)
  /\ prthresh = PRTHRESH
  /\ nblbins = 0 /\ ncapebins = 0 /\ nsubsatbins = 0
  /\ kthresh = FZero /\ size = 0
  /\ Idle

SpecCast == InitCast /\ [][Next]_vars

NextKernel == KernelEnter \/ KernelStep \/ KernelReturn

SpecKernel == InitKernel /\ [][NextKernel]_vars

\* the kernel called with four arrays of one length (SpecArrays)
InitArrays ==
  /\ pc = "enter" /\ caller = "arrays"
  /\ binparams = SmallParams /\ data = <<>> /\ prthresh = PRTHRESH
  /\ nblbins = MaxBins /\ nsubsatbins = MaxBins /\ ncapebins = MaxBins - 1
  /\ kthresh \in {Val(l) : l \in ThreshLits}
  /\ \E pts \in SeqsUpTo(ArrayPoints(MaxBins - 1), MaxArray) :
       /\ blidxs = [n \in 1..Len(pts) |-> pts[n].blidx]
       /\ capeidxs = [n \in 1..Len(pts) |-> pts[n].capeidx]
       /\ subsatidxs = [n \in 1..Len(pts) |-> pts[n].subsatidx]
       /\ prdata = [n \in 1..Len(pts) |-> pts[n].prval]
       /\ size = Len(pts)
  /\ bins = <<>> /\ ds = NoDs
  /\ i = 0 /\ pt = NoPoint /\ acc = NoAcc
  /\ key = "bl" /\ edges = <<>> /\ probe = <<0, 1>> /\ idx = 0
  /\ NoProcess /\ NoRevision

SpecArrays == InitArrays /\ [][NextKernel]_vars

\* the elementwise sum of two sets of accumulators
AddAcc(a, b) ==
  [Q0 |-> [k \in DOMAIN a.Q0 |-> a.Q0[k] + b.Q0[k]],
   QE |-> [k \in DOMAIN a.QE |-> a.QE[k] + b.QE[k]],
   Q1 |-> [k \in DOMAIN a.Q1 |-> FAdd(a.Q1[k], b.Q1[k])],
   P0 |-> [c \in DOMAIN a.P0 |-> a.P0[c] + b.P0[c]],
   PE |-> [c \in DOMAIN a.PE |-> a.PE[c] + b.PE[c]],
   P1 |-> [c \in DOMAIN a.P1 |-> FAdd(a.P1[c], b.P1[c])]]

\* the elements of the sequence q at the positions n with g[n] = c, in order
ChunkOf(q, g, c) ==
  LET ns == SelectSeq([n \in 1..Len(q) |-> n], LAMBDA n : g[n] = c)
  IN  [n \in 1..Len(ns) |-> q[ns[n]]]

\* the points of the four arrays split into chunks (g[n] is the chunk of
\* point n), the kernel called on each chunk: the calls run side by side,
\* their loop iterations in any order (called lists the chunks in the order
\* of the iterations taken), and the arrays they return are added
\* elementwise into acc in the order the calls are merged (SpecChunks).
\* tasks[c] is the call on chunk c
InitChunks ==
  /\ pc = "chunks" /\ caller = "chunks"
  /\ binparams = SmallParams /\ data = <<>> /\ prthresh = PRTHRESH
  /\ nblbins = MaxBins /\ nsubsatbins = MaxBins /\ ncapebins = MaxBins - 1
  /\ kthresh \in {Val(l) : l \in ThreshLits}
  /\ \E pts \in SeqsUpTo(ArrayPoints(MaxBins - 1), MaxArray) :
       /\ blidxs = [n \in 1..Len(pts) |-> pts[n].blidx]
       /\ capeidxs = [n \in 1..Len(pts) |-> pts[n].capeidx]
       /\ subsatidxs = [n \in 1..Len(pts) |-> pts[n].subsatidx]
       /\ prdata = [n \in 1..Len(pts) |-> pts[n].prval]
       /\ size = Len(pts)
       /\ \E g \in [1..Len(pts) -> 1..MaxChunks] :
            tasks = [c \in 1..MaxChunks |->
                       [pc |-> "wait", pts |-> ChunkOf(pts, g, c), i |-> 0,
                        acc |-> NoAcc]]
  /\ bins = <<>> /\ ds = NoDs
  /\ i = 0 /\ pt = NoPoint /\ acc = NoAcc
  /\ key = "bl" /\ edges = <<>> /\ probe = <<0, 1>> /\ idx = 0
  /\ REGIONS = <<>> /\ regions = <<>> /\ months = <<>> /\ dataset = <<>>
  /\ regionpos = 0 /\ monthpos = 0 /\ regiondata = <<>> /\ monthdata = <<>>
  /\ monthstatslist = <<>> /\ regionstatslist = <<>> /\ product = NoProduct
  /\ failat = 0 /\ calls = 0 /\ called = <<>>
  /\ NoRevision

\* the six np.zeros of the call on chunk c
ChunkEnter(c) ==
  /\ pc = "chunks" /\ tasks[c].pc = "wait"
  /\ tasks' = [tasks EXCEPT
                 ![c].acc = Zeros(nblbins, ncapebins, nsubsatbins),
                 ![c].pc = "loop"]
  /\ UNCHANGED <<pc, caller, builderVars, arrayVars, shapeVars, i, pt, acc,
                 edgeVars, configVars, regionpos, monthpos, regiondata,
                 monthdata, monthstatslist, regionstatslist, product, calls,
                 called, revisionVars>>

\* one iteration of the loop of the call on chunk c
ChunkStep(c) ==
  /\ pc = "chunks" /\ tasks[c].pc = "loop" /\ tasks[c].i < Len(tasks[c].pts)
  /\ tasks' = [tasks EXCEPT
                 ![c].acc = Accumulate(tasks[c].acc, tasks[c].pts[tasks[c].i + 1],
                                       nblbins, ncapebins, nsubsatbins, kthresh),
                 ![c].i = tasks[c].i + 1]
  /\ called' = Append(called, c)
  /\ UNCHANGED <<pc, caller, builderVars, arrayVars, shapeVars, i, pt, acc,
                 edgeVars, configVars, regionpos, monthpos, regiondata,
                 monthdata, monthstatslist, regionstatslist, product, calls,
                 revisionVars>>

\* the call on chunk c returns its six arrays
ChunkReturn(c) ==
  /\ pc = "chunks" /\ tasks[c].pc = "loop" /\ tasks[c].i = Len(tasks[c].pts)
  /\ tasks' = [tasks EXCEPT ![c].pc = "returned"]
  /\ UNCHANGED <<pc, caller, builderVars, arrayVars, shapeVars, i, pt, acc,
                 edgeVars, configVars, regionpos, monthpos, regiondata,
                 monthdata, monthstatslist, regionstatslist, product, calls,
                 called, revisionVars>>

\* the reduction of a chunked run (the notebook makes one call per subset
\* and has no reduction of its own): the arrays returned for chunk c are
\* added elementwise to the arrays merged so far (the first ones are taken
\* as they are); after the last chunk the reduction is complete
ChunkMerge(c) ==
  /\ pc = "chunks" /\ tasks[c].pc = "returned"
  /\ acc' = IF \A d \in DOMAIN tasks : tasks[d].pc # "merged"
            THEN tasks[c].acc
            ELSE AddAcc(acc, tasks[c].acc)
  /\ tasks' = [tasks EXCEPT ![c].pc = "merged"]
  /\ pc' = IF \A d \in DOMAIN tasks \ {c} : tasks[d].pc = "merged"
           THEN "reduced" ELSE pc
  /\ UNCHANGED <<caller, builderVars, arrayVars, shapeVars, i, pt, edgeVars,
                 configVars, regionpos, monthpos, regiondata, monthdata,
                 monthstatslist, regionstatslist, product, calls, called,
                 revisionVars>>

NextChunks ==
  \/ \E c \in DOMAIN tasks : ChunkEnter(c)
  \/ \E c \in DOMAIN tasks : ChunkStep(c)
  \/ \E c \in DOMAIN tasks : ChunkReturn(c)
  \/ \E c \in DOMAIN tasks : ChunkMerge(c)

SpecChunks == InitChunks /\ [][NextChunks]_vars

\* the kernel called with one index array of another length than prdata: the
\* loop runs prdata.size times whatever the lengths of the index arrays are
MisalignedPoints ==
  {[blidx |-> 0, capeidx |-> 0, subsatidx |-> 0, prval |-> Val(<<1, 2>>)],
   [blidx |-> 1, capeidx |-> 0, subsatidx |-> 1, prval |-> Val(<<1, 4>>)]}

InitMisaligned ==
  /\ pc = "enter" /\ caller = "arrays"
  /\ binparams = SmallParams /\ data = <<>> /\ prthresh = PRTHRESH
  /\ nblbins = MaxBins /\ nsubsatbins = MaxBins /\ ncapebins = MaxBins - 1
  /\ kthresh = Val(PRTHRESH)
  /\ \E pts \in [1..MaxArray -> MisalignedPoints], np \in 1..MaxArray,
        other \in {"bl", "cape", "subsat"}, l \in 0..MaxArray :
       /\ l # np
       /\ blidxs = [n \in 1..(IF other = "bl" THEN l ELSE np) |-> pts[n].blidx]
       /\ capeidxs = [n \in 1..(IF other = "cape" THEN l ELSE np) |-> pts[n].capeidx]
       /\ subsatidxs =
            [n \in 1..(IF other = "subsat" THEN l ELSE np) |-> pts[n].subsatidx]
       /\ prdata = [n \in 1..np |-> pts[n].prval]
       /\ size = np
  /\ bins = <<>> /\ ds = NoDs
  /\ i = 0 /\ pt = NoPoint /\ acc = NoAcc
  /\ key = "bl" /\ edges = <<>> /\ probe = <<0, 1>> /\ idx = 0
  /\ NoProcess /\ NoRevision

\* a read past the end of an index array may also hit memory the process
\* does not own
KernelFault ==
  /\ pc = "loop" /\ i < size /\ caller = "arrays"
  /\ \/ i + 1 > Len(blidxs) \/ i + 1 > Len(capeidxs) \/ i + 1 > Len(subsatidxs)
  /\ pc' = "fault"
  /\ UNCHANGED <<caller, builderVars, arrayVars, shapeVars, i, pt, acc,
                 edgeVars, processVars>>

NextMisaligned == KernelEnter \/ KernelStep \/ KernelReturn \/ KernelFault

SpecMisaligned == InitMisaligned /\ [][NextMisaligned]_vars

-----------------------------------------------------------------------------
(* The earlier revision's loop and the kernel on the same arrays: first    *)
(* the triple loop runs over the 3-D arrays, then the kernel over their    *)
(* .flat elements, with the same bin counts and threshold.                 *)

MaxGrid  == 2      \* length of each of the time, lat and lon dimensions
MaxCells == 4      \* elements of the 3-D arrays

GridShapes ==
  {sh \in (1..MaxGrid) \X (1..MaxGrid) \X (1..MaxGrid) :
     sh[1] * sh[2] * sh[3] <= MaxCells}

\* elements of the 3-D arrays: three values in 1-D bin 0 whose float64 sum
\* depends on the order (one of them outside the 2-D axes), a point below
\* the 1-D axis, a missing value
RevisionPoints(ncape) ==
  {[blidx |-> 0, capeidx |-> 0, subsatidx |-> 0, prval |-> Val(<<3, 10>>)],
   [blidx |-> 0, capeidx |-> 0, subsatidx |-> 0, prval |-> Val(<<2, 10>>)],
   [blidx |-> 0, capeidx |-> ncape, subsatidx |-> 0, prval |-> Val(<<1, 10>>)],
   [blidx |-> -1, capeidx |-> 0, subsatidx |-> 1, prval |-> Val(<<2, 10>>)],
   [blidx |-> 1, capeidx |-> 0, subsatidx |-> 0, prval |-> FNaN]}

InitRevisions ==
  /\ pc = "nested-enter" /\ caller = "revisions"
  /\ binparams = SmallParams /\ data = <<>> /\ prthresh = PRTHRESH
  /\ nblbins = MaxBins /\ nsubsatbins = MaxBins /\ ncapebins = MaxBins - 1
  /\ kthresh \in {Val(l) : l \in ThreshLits}
  /\ \E sh \in GridShapes :
       /\ grid \in [1..sh[1] -> [1..sh[2] -> [1..sh[3] ->
                      RevisionPoints(MaxBins - 1)]]]
       /\ size = sh[1] * sh[2] * sh[3]
  /\ blidxs = [n \in 1..size |-> Flat(grid)[n].blidx]
  /\ capeidxs = [n \in 1..size |-> Flat(grid)[n].capeidx]
  /\ subsatidxs = [n \in 1..size |-> Flat(grid)[n].subsatidx]
  /\ prdata = [n \in 1..size |-> Flat(grid)[n].prval]
  /\ nested = NoNested
  /\ bins = <<>> /\ ds = NoDs
  /\ i = 0 /\ pt = NoPoint /\ acc = NoAcc
  /\ key = "bl" /\ edges = <<>> /\ probe = <<0, 1>> /\ idx = 0
  /\ NoProcess

\* Q0 = np.zeros((nblbins)) ... PE = np.zeros((nsubsatbins,ncapebins))
NestedEnter ==
  /\ pc = "nested-enter"
  /\ nested' = [set |-> TRUE, timeidx |-> 0, latidx |-> 0, lonidx |-> 0,
                arr |-> RevisionZeros(nblbins, ncapebins, nsubsatbins)]
  /\ pc' = "nested-loop"
  /\ UNCHANGED <<caller, builderVars, arrayVars, shapeVars, i, pt, acc,
                 edgeVars, configVars, loopVars, tasks, grid>>

\* one pass of the innermost loop body; lonidx runs fastest, then latidx,
\* then timeidx
NestedStep ==
  /\ pc = "nested-loop" /\ nested.timeidx < Len(grid)
  /\ LET nlat == Len(grid[1])
         nlon == Len(grid[1][1])
         p    == grid[nested.timeidx + 1][nested.latidx + 1][nested.lonidx + 1]
         lastlon == nested.lonidx + 1 = nlon
         lastlat == nested.latidx + 1 = nlat
     IN  \E arr \in RevisionBody(nested.arr, p, nblbins, ncapebins,
                                  nsubsatbins, kthresh) :
           nested' =
             [set |-> TRUE,
              timeidx |-> IF lastlon /\ lastlat THEN nested.timeidx + 1
                          ELSE nested.timeidx,
              latidx  |-> IF ~lastlon THEN nested.latidx
                          ELSE IF lastlat THEN 0 ELSE nested.latidx + 1,
              lonidx  |-> IF lastlon THEN 0 ELSE nested.lonidx + 1,
              arr     |-> arr]
  /\ UNCHANGED <<pc, caller, builderVars, arrayVars, shapeVars, i, pt, acc,
                 edgeVars, configVars, loopVars, tasks, grid>>

\* the loops are over; the kernel is then run on the same arrays
NestedReturn ==
  /\ pc = "nested-loop" /\ nested.timeidx = Len(grid)
  /\ pc' = "enter"
  /\ UNCHANGED <<caller, builderVars, arrayVars, shapeVars, i, pt, acc,
                 edgeVars, processVars>>

NextRevisions ==
  \/ NestedEnter \/ NestedStep \/ NestedReturn
  \/ KernelEnter \/ KernelStep \/ KernelReturn

SpecRevisions == InitRevisions /\ [][NextRevisions]_vars

-----------------------------------------------------------------------------
(* get_bin_edges and the index of one value, on their own (SpecEdges).     *)

InitEdges ==
  /\ pc = "edges" /\ caller = "direct"
  /\ binparams \in EdgeParams
  /\ key \in (IF binparams = BINPARAMS THEN {"bl", "cape", "subsat"} ELSE {"bl", "cape"})
  /\ data = <<>> /\ prthresh = PRTHRESH
  /\ nblbins = 0 /\ ncapebins = 0 /\ nsubsatbins = 0
  /\ kthresh = FZero /\ size = 0
  /\ bins = <<>> /\ ds = NoDs
  /\ blidxs = <<>> /\ capeidxs = <<>> /\ subsatidxs = <<>> /\ prdata = <<>>
  /\ i = 0 /\ pt = NoPoint /\ acc = NoAcc
  /\ edges = <<>> /\ probe = <<0, 1>> /\ idx = 0
  /\ NoProcess /\ NoRevision

GetBinEdges ==
  /\ pc = "edges"
  /\ \E e \in {get_bin_edges(key, binparams)} :
         IF Raises(e) THEN pc' = "raised" /\ UNCHANGED edges
         ELSE edges' = e /\ pc' = "index"
  /\ UNCHANGED <<caller, builderVars, arrayVars, shapeVars, i, pt, acc, key,
                 probe, idx, processVars>>

\* the index of one value on axis key
BinIndex ==
  /\ pc = "index"
  /\ \E v \in Probes(key, binparams) :
       /\ probe' = v
       /\ idx' \in (IF key = "bl" THEN blidxOf(Val(v), binparams)
                    ELSE IF key = "cape" THEN capeidxOf(Val(v), binparams)
                    ELSE subsatidxOf(Val(v), binparams))
  /\ pc' = "indexed"
  /\ UNCHANGED <<caller, builderVars, arrayVars, shapeVars, i, pt, acc, key,
                 edges, processVars>>

NextEdges == GetBinEdges \/ BinIndex

SpecEdges == InitEdges /\ [][NextEdges]_vars

-----------------------------------------------------------------------------
(* process_by_subregion (SpecProcess): the region loop, the month loop in  *)
(* it with one builder call per subset, and the two concatenations.  A     *)
(* builder call may raise (failat numbers the call that does); nothing in  *)
(* process_by_subregion catches an exception.                              *)

kernelIdle ==
  /\ data = <<>> /\ bins = <<>> /\ ds = NoDs
  /\ blidxs = <<>> /\ capeidxs = <<>> /\ subsatidxs = <<>> /\ prdata = <<>>
  /\ nblbins = 0 /\ ncapebins = 0 /\ nsubsatbins = 0
  /\ kthresh = FZero /\ size = 0
  /\ i = 0 /\ pt = NoPoint /\ acc = NoAcc
  /\ key = "bl" /\ edges = <<>> /\ probe = <<0, 1>> /\ idx = 0
  /\ NoRevision

kernelVars == <<data, bins, ds, arrayVars, shapeVars, i, pt, acc, edgeVars,
                revisionVars>>

InitProcess ==
  /\ pc = "pbs" /\ caller = "process"
  /\ binparams \in RunParams /\ prthresh = PRTHRESH
  /\ REGIONS \in RegionTables /\ regions = REGIONS
  /\ months \in MonthLists
  /\ dataset \in Datasets
  /\ failat \in 0..(Len(REGIONS) * Len(months))
  /\ regionpos = 0 /\ monthpos = 0 /\ regiondata = <<>> /\ monthdata = <<>>
  /\ monthstatslist = <<>> /\ regionstatslist = <<>> /\ product = NoProduct
  /\ calls = 0 /\ called = <<>> /\ tasks = <<>>
  /\ kernelIdle

\* regionstatslist = []
ProcessStart ==
  /\ pc = "pbs"
  /\ regionstatslist' = <<>>
  /\ pc' = "region"
  /\ UNCHANGED <<caller, binparams, prthresh, kernelVars, configVars, regionpos,
                 monthpos, regiondata, monthdata, monthstatslist, product, calls,
                 called, tasks>>

\* for region in regions: regiondata = get_region(ds,region);
\* monthstatslist = []   (get_region looks the key up in REGIONS)
NextRegion ==
  /\ pc = "region" /\ regionpos < Len(regions)
  /\ LET region == ForNext(regions, regionpos).key IN
       IF HasKey(REGIONS, region)
       THEN /\ regiondata' = get_region(dataset, region, REGIONS)
            /\ monthstatslist' = <<>>
            /\ monthpos' = 0
            /\ regionpos' = regionpos + 1
            /\ pc' = "month"
       ELSE /\ pc' = "raised"
            /\ UNCHANGED <<regiondata, monthstatslist, monthpos, regionpos>>
  /\ UNCHANGED <<caller, binparams, prthresh, kernelVars, configVars, monthdata,
                 regionstatslist, product, calls, called, tasks>>

\* for month in months: the selection, the builder call, the append
NextMonth ==
  /\ pc = "month" /\ monthpos < Len(months)
  /\ LET month == ForNext(months, monthpos)
         md    == SelMonth(regiondata, month)
     IN  /\ calls' = calls + 1
         /\ called' = Append(called, <<regions[regionpos].key, month>>)
         /\ monthdata' = md
         /\ \E monthstats \in (IF calls + 1 = failat THEN {Raise}
                               ELSE calc_binned_stats(md, binparams, prthresh)) :
              LET step == MonthStep(monthstatslist, monthstats, month)
              IN  /\ pc' = step.pc
                  /\ monthstatslist' = step.list
                  /\ monthpos' = IF step.pc = "raised" THEN monthpos
                                 ELSE monthpos + 1
  /\ UNCHANGED <<caller, binparams, prthresh, kernelVars, configVars, regionpos,
                 regiondata, regionstatslist, product, tasks>>

\* regionstats = xr.concat(monthstatslist,dim='month'), which raises on an
\* empty list; regionstatslist.append(...)
ConcatMonths ==
  /\ pc = "month" /\ monthpos = Len(months)
  /\ IF monthstatslist = <<>>
     THEN pc' = "raised" /\ UNCHANGED regionstatslist
     ELSE /\ regionstatslist' =
               Append(regionstatslist,
                      expand_dims(concat(monthstatslist, "month"), "region",
                                  regions[regionpos].key))
          /\ pc' = "region"
  /\ UNCHANGED <<caller, binparams, prthresh, kernelVars, configVars, regionpos,
                 monthpos, regiondata, monthdata, monthstatslist, product, calls,
                 called, tasks>>

\* return xr.concat(regionstatslist,dim='region'), which raises on an empty
\* list
ConcatRegions ==
  /\ pc = "region" /\ regionpos = Len(regions)
  /\ IF regionstatslist = <<>>
     THEN pc' = "raised" /\ UNCHANGED product
     ELSE product' = concat(regionstatslist, "region") /\ pc' = "product"
  /\ UNCHANGED <<caller, binparams, prthresh, kernelVars, configVars, regionpos,
                 monthpos, regiondata, monthdata, monthstatslist,
                 regionstatslist, calls, called, tasks>>

NextProcess ==
  ProcessStart \/ NextRegion \/ NextMonth \/ ConcatMonths \/ ConcatRegions

SpecProcess == InitProcess /\ [][NextProcess]_vars

\* process_by_subregion(ds,months,regions) called with a regions argument of
\* its own, the notebook's REGIONS being TwoRegions: the same table, a table
\* with another box for region A, a table with a region REGIONS does not have
ShiftedRegions ==
  <<[key |-> "A", latmin |-> 1, latmax |-> 1, lonmin |-> 0, lonmax |-> 1],
    [key |-> "B", latmin |-> 0, latmax |-> 1, lonmin |-> 1, lonmax |-> 1]>>
OtherKeyRegions ==
  <<[key |-> "A", latmin |-> 0, latmax |-> 0, lonmin |-> 0, lonmax |-> 1],
    [key |-> "C", latmin |-> 1, latmax |-> 1, lonmin |-> 0, lonmax |-> 0]>>
PassedRegionTables == {TwoRegions, ShiftedRegions, OtherKeyRegions}

InitPassed ==
  /\ pc = "pbs" /\ caller = "process"
  /\ binparams = SmallParams /\ prthresh = PRTHRESH
  /\ REGIONS = TwoRegions /\ regions \in PassedRegionTables
  /\ months \in MonthLists \ {<<>>}
  /\ dataset \in Datasets
  /\ failat = 0
  /\ regionpos = 0 /\ monthpos = 0 /\ regiondata = <<>> /\ monthdata = <<>>
  /\ monthstatslist = <<>> /\ regionstatslist = <<>> /\ product = NoProduct
  /\ calls = 0 /\ called = <<>> /\ tasks = <<>>
  /\ kernelIdle

SpecPassed == InitPassed /\ [][NextProcess]_vars

-----------------------------------------------------------------------------
(* The builder invocations of process_by_subregion run side by side: one   *)
(* task per (region, month), each executing calc_binned_stats on its own   *)
(* subset, their steps interleaved in any order; the product is assembled  *)
(* in configured order once every task has returned.                       *)

\* the tasks: <<a, b>> is region number a, month number b
Pairs == (1..Len(regions)) \X (1..Len(months))

NoTask ==
  [pc |-> "wait", bins |-> <<>>, pts |-> <<>>, i |-> 0, acc |-> NoAcc,
   rec |-> NoDs]

\* bins = {key:get_bin_edges(key,binparams) ...}
RunBins == [k \in {"bl", "cape", "subsat"} |-> get_bin_edges(k, binparams)]

\* monthdata of task t
TaskData(t) ==
  SelMonth(get_region(dataset, regions[t[1]].key, REGIONS), months[t[2]])

\* faulty variant: one set of accumulator arrays for all the invocations (a
\* task starts on what another task has accumulated)
TaskZerosShared(ts, t, nbl, ncape, nsubsat) ==
  IF \E u \in DOMAIN ts : u # t /\ ts[u].acc # NoAcc
  THEN ts[CHOOSE u \in DOMAIN ts : u # t /\ ts[u].acc # NoAcc].acc
  ELSE Zeros(nbl, ncape, nsubsat)

\* each invocation of the kernel allocates its six arrays with np.zeros
TaskZeros(ts, t, nbl, ncape, nsubsat) ==
  Zeros(nbl, ncape, nsubsat)

\* the month lists of the side-by-side runs
ParallelMonthLists == {<<6, 7>>, <<7, 6>>}

InitParallel ==
  /\ pc = "parallel" /\ caller = "parallel"
  /\ binparams = SmallParams /\ prthresh = PRTHRESH
  /\ REGIONS = TwoRegions /\ regions = REGIONS
  /\ months \in ParallelMonthLists
  /\ dataset \in Datasets
  /\ failat = 0
  /\ regionpos = 0 /\ monthpos = 0 /\ regiondata = <<>> /\ monthdata = <<>>
  /\ monthstatslist = <<>> /\ regionstatslist = <<>> /\ product = NoProduct
  /\ calls = 0 /\ called = <<>>
  /\ tasks = [t \in Pairs |-> NoTask]
  /\ kernelIdle

\* calc_binned_stats up to the kernel's allocation: the values, the index
\* arrays, the zeroed accumulators
TaskStart(t) ==
  /\ pc = "parallel" /\ tasks[t].pc = "wait"
  /\ LET d == TaskData(t)
         bs == RunBins
     IN
       IF AnyRaises(bs)
       THEN tasks' = [tasks EXCEPT ![t].pc = "raised"]
       ELSE
       \E b \in PickEach([n \in 1..Len(d) |-> blidxOf(Val(d[n].bl), binparams)]),
          c \in PickEach([n \in 1..Len(d) |-> capeidxOf(Val(d[n].cape), binparams)]),
          s \in PickEach([n \in 1..Len(d) |->
                            subsatidxOf(Val(d[n].subsat), binparams)]) :
         tasks' = [tasks EXCEPT ![t] =
                     [pc  |-> "loop",
                      bins |-> bs,
                      pts |-> Points(b, c, s, [n \in 1..Len(d) |-> Val(d[n].pr)]),
                      i   |-> 0,
                      acc |-> TaskZeros(tasks, t, Len(bs.bl), Len(bs.cape),
                                        Len(bs.subsat)),
                      rec |-> NoDs]]
  /\ UNCHANGED <<pc, caller, binparams, prthresh, kernelVars, configVars,
                 loopVars>>

\* one iteration of the kernel's loop in task t
TaskStep(t) ==
  /\ pc = "parallel" /\ tasks[t].pc = "loop" /\ tasks[t].i < Len(tasks[t].pts)
  /\ tasks' = [tasks EXCEPT
                 ![t].acc = Accumulate(tasks[t].acc, tasks[t].pts[tasks[t].i + 1],
                                       Len(tasks[t].bins.bl),
                                       Len(tasks[t].bins.cape),
                                       Len(tasks[t].bins.subsat), Val(PRTHRESH)),
                 ![t].i = tasks[t].i + 1]
  /\ UNCHANGED <<pc, caller, binparams, prthresh, kernelVars, configVars,
                 loopVars>>

\* the kernel returns and calc_binned_stats packages the Dataset
TaskReturn(t) ==
  /\ pc = "parallel" /\ tasks[t].pc = "loop" /\ tasks[t].i = Len(tasks[t].pts)
  /\ tasks' = [tasks EXCEPT
                 ![t].rec = StatsDataset(tasks[t].acc, tasks[t].bins, prthresh),
                 ![t].pc = "done"]
  /\ UNCHANGED <<pc, caller, binparams, prthresh, kernelVars, configVars,
                 loopVars>>

\* the records put together as lines 257-260 do, in configured order
Gather ==
  /\ pc = "parallel" /\ \A t \in Pairs : tasks[t].pc = "done"
  /\ product' =
       concat([a \in 1..Len(regions) |->
                 expand_dims(
                   concat([b \in 1..Len(months) |->
                             expand_dims(tasks[<<a, b>>].rec, "month", months[b])],
                          "month"),
                   "region", regions[a].key)],
              "region")
  /\ pc' = "product"
  /\ UNCHANGED <<caller, binparams, prthresh, kernelVars, configVars, regionpos,
                 monthpos, regiondata, monthdata, monthstatslist,
                 regionstatslist, calls, called, tasks>>

NextParallel ==
  \/ \E t \in Pairs : TaskStart(t)
  \/ \E t \in Pairs : TaskStep(t)
  \/ \E t \in Pairs : TaskReturn(t)
  \/ Gather

SpecParallel == InitParallel /\ [][NextParallel]_vars

-----------------------------------------------------------------------------
(* The accumulation kernel, point by point (SpecKernel).                   *)

\* a loop iteration has just been taken: pt' is the point it read
Stepped == i' = i + 1

In1D(p) == 0 <= p.blidx /\ p.blidx < nblbins
In2D(p) ==
  /\ 0 <= p.subsatidx /\ p.subsatidx < nsubsatbins
  /\ 0 <= p.capeidx /\ p.capeidx < ncapebins
Cell(p) == <<p.subsatidx, p.capeidx>>
Above(p) == p.prval.k = "fin" /\ FCmp(p.prval, kthresh) > 0

\* C1: an iteration whose point has its 1-D index in range and a finite value
\* adds 1 to Q0[i], the value to Q1[i], and 1 to QE[i] exactly when the value
\* exceeds the threshold, and leaves every other 1-D bin alone; any other
\* point leaves Q0, QE and Q1 as they were; whatever the 2-D indices are.
C1_OneDimUpdate ==
  [][Stepped =>
       LET p == pt' IN
       IF In1D(p) /\ p.prval.k = "fin"
       THEN /\ acc'.Q0[p.blidx] = acc.Q0[p.blidx] + 1
            /\ acc'.Q1[p.blidx] = FAdd(acc.Q1[p.blidx], p.prval)
            /\ acc'.QE[p.blidx] = acc.QE[p.blidx] + (IF Above(p) THEN 1 ELSE 0)
            /\ \A b \in (DOMAIN acc.Q0) \ {p.blidx} :
                 /\ acc'.Q0[b] = acc.Q0[b]
                 /\ acc'.Q1[b] = acc.Q1[b]
                 /\ acc'.QE[b] = acc.QE[b]
       ELSE acc'.Q0 = acc.Q0 /\ acc'.Q1 = acc.Q1 /\ acc'.QE = acc.QE
  ]_vars

\* the second point of a call lands in the bin of the first, its 2-D indices
\* out of range, one of the two above the threshold
C1_Witness ==
  /\ pc = "loop" /\ i = 2
  /\ In1D(pt) /\ pt.prval.k = "fin" /\ ~In2D(pt)
  /\ acc.Q0[pt.blidx] = 2 /\ acc.QE[pt.blidx] = 1

\* C2: an iteration whose point has both 2-D indices in range and a finite
\* value adds 1 to P0[a,b], the value to P1[a,b], and 1 to PE[a,b] exactly
\* when the value exceeds the threshold (a the subsat index, b the cape
\* index), and leaves every other cell alone; any other point leaves P0, PE
\* and P1 as they were; whatever the 1-D index is.
C2_TwoDimUpdate ==
  [][Stepped =>
       LET p == pt' IN
       IF In2D(p) /\ p.prval.k = "fin"
       THEN /\ acc'.P0[Cell(p)] = acc.P0[Cell(p)] + 1
            /\ acc'.P1[Cell(p)] = FAdd(acc.P1[Cell(p)], p.prval)
            /\ acc'.PE[Cell(p)] = acc.PE[Cell(p)] + (IF Above(p) THEN 1 ELSE 0)
            /\ \A c \in (DOMAIN acc.P0) \ {Cell(p)} :
                 /\ acc'.P0[c] = acc.P0[c]
                 /\ acc'.P1[c] = acc.P1[c]
                 /\ acc'.PE[c] = acc.PE[c]
       ELSE acc'.P0 = acc.P0 /\ acc'.P1 = acc.P1 /\ acc'.PE = acc.PE
  ]_vars

\* the second point of a call lands in the cell of the first, a cell whose
\* subsat index is no valid cape index, its 1-D index out of range
C2_Witness ==
  /\ pc = "loop" /\ i = 2
  /\ In2D(pt) /\ pt.prval.k = "fin" /\ ~In1D(pt)
  /\ pt.subsatidx >= ncapebins
  /\ acc.P0[Cell(pt)] = 2 /\ acc.PE[Cell(pt)] = 1

\* C8: an iteration whose point has a non-finite value leaves the six
\* accumulators as they were, whatever its indices are, and the loop goes on:
\* the kernel returns only after prdata.size iterations.
C8_NonFiniteSkipped ==
  /\ [][(Stepped /\ pt'.prval.k # "fin") => (acc' = acc /\ pc' = "loop")]_vars
  /\ [](pc = "returned" => i = size)

\* the first point was counted in a bin and a cell, and the second point,
\* with the same indices and a non-finite value, was passed over
C8_Witness ==
  /\ pc = "loop" /\ i = 2
  /\ In1D(pt) /\ In2D(pt) /\ pt.prval.k # "fin"
  /\ acc.Q0[pt.blidx] = 1 /\ acc.P0[Cell(pt)] = 1

\* C9: a point whose value equals the threshold is counted in Q0 (in P0) when
\* its index is (its indices are) in range, and in neither QE nor PE.
C9_ThresholdStrict ==
  [][(Stepped /\ pt'.prval.k = "fin" /\ FCmp(pt'.prval, kthresh) = 0) =>
       LET p == pt' IN
       /\ acc'.QE = acc.QE /\ acc'.PE = acc.PE
       /\ In1D(p) => acc'.Q0[p.blidx] = acc.Q0[p.blidx] + 1
       /\ In2D(p) => acc'.P0[Cell(p)] = acc.P0[Cell(p)] + 1
  ]_vars

\* a point at the threshold was counted in Q0 and P0 and not in QE or PE
C9_Witness ==
  /\ pc = "loop" /\ i = 1
  /\ pt.prval.k = "fin" /\ FCmp(pt.prval, kthresh) = 0
  /\ In1D(pt) /\ In2D(pt)
  /\ acc.Q0[pt.blidx] = 1 /\ acc.QE[pt.blidx] = 0
  /\ acc.P0[Cell(pt)] = 1 /\ acc.PE[Cell(pt)] = 0

\* C10: after any number of points, QE[i] <= Q0[i] for every 1-D bin and
\* PE[a,b] <= P0[a,b] for every cell (thresholds 0 and PRTHRESH).
C10_ExceedanceBelowCount ==
  /\ \A b \in DOMAIN acc.Q0 : acc.QE[b] <= acc.Q0[b]
  /\ \A c \in DOMAIN acc.P0 : acc.PE[c] <= acc.P0[c]

\* a bin and a cell that hold two points, one of them above the threshold
C10_Witness ==
  /\ \E b \in DOMAIN acc.Q0 : acc.Q0[b] = 2 /\ acc.QE[b] = 1
  /\ \E c \in DOMAIN acc.P0 : acc.P0[c] = 2 /\ acc.PE[c] = 1

-----------------------------------------------------------------------------
(* The bin index of a value (Spec).  The claims speak of the numbers the   *)
(* literals denote: (v - min)/width is the fraction ScaledNum/ScaledDen.   *)

ScaledNum(v, varname) ==
  (v[1] * varname.min[2] - varname.min[1] * v[2]) * varname.width[2]
ScaledDen(v, varname) == v[2] * varname.min[2] * varname.width[1]

\* floor((v - min)/width + 0.5) and floor((v - min)/width - 0.5)
FloorHalfUp(v, varname) ==
  (2 * ScaledNum(v, varname) + ScaledDen(v, varname))
    \div (2 * ScaledDen(v, varname))
FloorHalfDown(v, varname) ==
  (2 * ScaledNum(v, varname) - ScaledDen(v, varname))
    \div (2 * ScaledDen(v, varname))

Indexed == caller = "builder" /\ pc \in {"enter", "loop", "returned", "done"}

FinitePr(n) == data[n].pr[2] # 0

\* C3: the 1-D index of every point is floor((v - min)/width + 0.5), negative
\* whenever (v - min)/width + 0.5 < 0, so that the 1-D counts of the record
\* are those of the points with finite precipitation by that index.
C3_PolicyAIsFloor ==
  Indexed =>
    /\ \A n \in 1..Len(data) : blidxs[n] = FloorHalfUp(data[n].bl, binparams.bl)
    /\ pc = "done" =>
         \A b \in DOMAIN acc.Q0 :
           acc.Q0[b] = Cardinality({n \in 1..Len(data) :
                         FinitePr(n) /\ FloorHalfUp(data[n].bl, binparams.bl) = b})

\* C4: the 2-D indices of every point are floor((v - min)/width - 0.5) on
\* both axes, so that a value equal to min has index -1 on a 2-D axis (and
\* index 0 on the 1-D axis) and the 2-D counts of the record are those of the
\* points with finite precipitation by those indices.
C4_PolicyBIsFloor ==
  Indexed =>
    /\ \A n \in 1..Len(data) :
         /\ capeidxs[n] = FloorHalfDown(data[n].cape, binparams.cape)
         /\ subsatidxs[n] = FloorHalfDown(data[n].subsat, binparams.subsat)
         /\ data[n].cape = binparams.cape.min => capeidxs[n] = -1
         /\ data[n].subsat = binparams.subsat.min => subsatidxs[n] = -1
         /\ data[n].bl = binparams.bl.min => blidxs[n] = 0
    /\ pc = "done" =>
         \A c \in DOMAIN acc.P0 :
           acc.P0[c] = Cardinality({n \in 1..Len(data) :
                         /\ FinitePr(n)
                         /\ FloorHalfDown(data[n].subsat, binparams.subsat) = c[1]
                         /\ FloorHalfDown(data[n].cape, binparams.cape) = c[2]})

-----------------------------------------------------------------------------
(* The derived edges (SpecEdges).  The claims speak of the numbers the     *)
(* literals denote: for literals <<n, d>>, (max - min)/width is the        *)
(* fraction SpanNum/SpanDen, and a max <<n, d, u>> denotes a number next   *)
(* to n/d, which moves (max - min)/width by less than 1e-12 here.          *)

SpanNum(varname) ==
  (varname.max[1] * varname.min[2] - varname.min[1] * varname.max[2])
    * varname.width[2]
SpanDen(varname) == varname.max[2] * varname.min[2] * varname.width[1]

\* (max - min)/width is within 1e-9 of a whole number: the fractions of the
\* literals here have small denominators, so that is the case exactly when
\* SpanNum/SpanDen is whole
NearWholeSpan(varname) == SpanNum(varname) % SpanDen(varname) = 0

\* the whole number (max - min)/width is nearest to
NearestWhole(varname) == (2 * SpanNum(varname) + SpanDen(varname)) \div (2 * SpanDen(varname))

\* max - min is a whole number of widths
WholeSpan(varname) == Len(varname.max) = 2 /\ NearWholeSpan(varname)

\* floor((max - min)/width): one below the whole SpanNum/SpanDen for a max
\* just below n/d
SpanFloor(varname) ==
  IF NearWholeSpan(varname) /\ Len(varname.max) = 3 /\ varname.max[3] < 0
  THEN SpanNum(varname) \div SpanDen(varname) - 1
  ELSE SpanNum(varname) \div SpanDen(varname)

Derived == pc \in {"index", "indexed"}

FAbs(a) == [a EXCEPT !.s = IF a.s < 0 THEN 1 ELSE a.s]

\* what float rounding can move an edge or a step by is far below this
StepTol == Dec(1, 1000000000)

\* b - a is the width, up to rounding
StepIsWidth(a, b, varname) ==
  FCmp(FAbs(FSub(FSub(b, a), Val(varname.width))), StepTol) < 0

Billion == FInt(1000000000)

\* 1e-9 widths
WidthTol(varname) == FDiv(Val(varname.width), Billion)

\* |n/d| of a literal is at most 1000 widths
WithinWidths(l, varname) ==
  (IF l[1] < 0 THEN -l[1] ELSE l[1]) * varname.width[2]
    <= 1000 * varname.width[1] * l[2]

\* |min| and |max| are at most 1000 widths
Moderate(varname) ==
  WithinWidths(varname.min, varname) /\ WithinWidths(varname.max, varname)

\* the first edge is min and the edges ascend strictly, each step within
\* 1e-9 widths of the width
AscendingFromMin(varname) ==
  /\ Len(edges) >= 1 /\ edges[1] = Val(varname.min)
  /\ \E w \in {Val(varname.width)}, tol \in {WidthTol(varname)} :
       \A k \in 1..(Len(edges) - 1) :
         /\ FCmp(edges[k], edges[k + 1]) < 0
         /\ FCmp(FAbs(FSub(FSub(edges[k + 1], edges[k]), w)), tol) < 0

\* C5 as stated: get_bin_edges returns floor((max - min)/width) + 1 edges,
\* the first is min, and they ascend strictly with constant step width.
C5_EdgeCountFloorPlusOne ==
  Derived =>
    /\ Len(edges) = SpanFloor(binparams[key]) + 1
    /\ AscendingFromMin(binparams[key])

\* C5 amended: with |min| and |max| at most 1000 widths, get_bin_edges
\* returns ceil(((max + width) - min)/width) edges as float64 evaluates it:
\* floor((max - min)/width) + 2 when (max - min)/width is farther than 1e-9
\* from every whole number, and k + 1 or k + 2 when it is within 1e-9 of the
\* whole number k; the first edge is min and the edges ascend strictly, each
\* step within 1e-9 widths of the width.
C5_EdgeCountCeilOfStop ==
  (Derived /\ Moderate(binparams[key])) =>
    /\ Len(edges) \in
         (IF NearWholeSpan(binparams[key])
          THEN {NearestWhole(binparams[key]) + 1,
                NearestWhole(binparams[key]) + 2}
          ELSE {SpanFloor(binparams[key]) + 2})
    /\ AscendingFromMin(binparams[key])

\* a span that is no whole number of widths, with floor + 2 edges
C5_Witness ==
  /\ pc = "index" /\ Moderate(binparams[key])
  /\ ~NearWholeSpan(binparams[key])
  /\ Len(edges) = SpanFloor(binparams[key]) + 2
  /\ AscendingFromMin(binparams[key])

\* C6 as stated: no derived edge is greater than max, and the last edge is
\* min + k*width for the largest k with min + k*width <= max.
C6_EdgesWithinMax ==
  Derived =>
    /\ \A k \in 1..Len(edges) : FCmp(edges[k], Val(binparams[key].max)) <= 0
    /\ Len(edges) - 1 = SpanFloor(binparams[key])

\* C6 amended: with |min| and |max| at most 1000 widths, the derived edges
\* run from min up to max + width: every edge is below max + width, the
\* last edge is max or more and every edge before the last is max or less,
\* each up to 1e-9 widths; and the last edge is greater than max whenever
\* (max - min)/width is farther than 1e-9 from every whole number.
C6_EdgesWithinStop ==
  (Derived /\ Moderate(binparams[key])) =>
    \E max \in {Val(binparams[key].max)}, tol \in {WidthTol(binparams[key])} :
      \E stop \in {FAdd(max, Val(binparams[key].width))} :
        /\ Len(edges) >= 1
        /\ \A k \in 1..Len(edges) : FCmp(edges[k], FAdd(stop, tol)) < 0
        /\ FCmp(edges[Len(edges)], FSub(max, tol)) > 0
        /\ ~NearWholeSpan(binparams[key]) => FCmp(edges[Len(edges)], max) > 0
        /\ \A k \in 1..(Len(edges) - 1) : FCmp(edges[k], FAdd(max, tol)) < 0

\* a span that is no whole number of widths: the last edge is above max and
\* the one before it below
C6_Witness ==
  /\ pc = "index" /\ Moderate(binparams[key])
  /\ ~NearWholeSpan(binparams[key])
  /\ FCmp(edges[Len(edges)], Val(binparams[key].max)) > 0
  /\ FCmp(edges[Len(edges) - 1], Val(binparams[key].max)) < 0

\* the cases next to a whole span: {min 0, max 1.0000000000000002, width 1}
\* has the two edges 0, 1, the last one below max; {min 0, max
\* 0.30000000000000004, width 0.1} has four edges; {min 0, max
\* 0.9999999999999999, width 1} has the two edges 0, 1
NextToWholeEdges ==
  Derived =>
    /\ binparams[key] = [min |-> <<0, 10>>, max |-> <<10, 10, 1>>, width |-> <<10, 10>>]
         => /\ Len(edges) = 2
            /\ FCmp(edges[2], Val(binparams[key].max)) < 0
    /\ binparams[key] = [min |-> <<0, 10>>, max |-> <<3, 10, 1>>, width |-> <<1, 10>>]
         => /\ Len(edges) = 4
            /\ FCmp(edges[4], Val(binparams[key].max)) = 0
    /\ binparams[key] = [min |-> <<0, 10>>, max |-> <<10, 10, -1>>, width |-> <<10, 10>>]
         => /\ Len(edges) = 2
            /\ FCmp(edges[2], Val(binparams[key].max)) > 0

NextToWholeReached ==
  /\ pc = "index"
  /\ binparams[key] = [min |-> <<0, 10>>, max |-> <<3, 10, 1>>, width |-> <<1, 10>>]
  /\ Len(edges) = 4

\* C7: with the notebook's 1-D BinSpecification {min -0.6, max 0.1, width
\* 0.0025}, 281 edges are derived, and the values -0.6 and -0.59875 both have
\* 1-D index 0.
C7_NotebookBlAxis ==
  (binparams = BINPARAMS /\ key = "bl") =>
    /\ Derived => Len(edges) = 281
    /\ (pc = "indexed" /\ probe = <<-6, 10>>) => idx = 0
    /\ (pc = "indexed" /\ probe = <<-59875, 100000>>) => idx = 0

C7_Witness ==
  /\ binparams = BINPARAMS /\ key = "bl" /\ pc = "indexed"
  /\ probe = <<-59875, 100000>> /\ idx = 0
  /\ Len(edges) = 281

-----------------------------------------------------------------------------
(* A whole pass of the kernel over arrays of one length (SpecArrays).      *)

\* the sum of the elements of an array of counts
RECURSIVE SumOf(_)
SumOf(f) ==
  IF DOMAIN f = {} THEN 0
  ELSE LET k == CHOOSE x \in DOMAIN f : TRUE
       IN  f[k] + SumOf([x \in DOMAIN f \ {k} |-> f[x]])

Finite1D == {n \in 1..size : /\ prdata[n].k = "fin"
                             /\ 0 <= blidxs[n] /\ blidxs[n] < nblbins}
Finite2D == {n \in 1..size : /\ prdata[n].k = "fin"
                             /\ 0 <= subsatidxs[n] /\ subsatidxs[n] < nsubsatbins
                             /\ 0 <= capeidxs[n] /\ capeidxs[n] < ncapebins}

\* C11: after a complete pass, sum(Q0) is the number of points with finite
\* precipitation and 1-D index in range and sum(P0) the number of points with
\* finite precipitation and both 2-D indices in range, whatever the threshold.
C11_CountsConserved ==
  pc = "returned" =>
    /\ SumOf(acc.Q0) = Cardinality(Finite1D)
    /\ SumOf(acc.P0) = Cardinality(Finite2D)

\* a pass over two points, one of them missing, the other in range
C11_Witness ==
  /\ pc = "returned" /\ size = 2
  /\ Cardinality({n \in 1..size : prdata[n].k = "fin"}) = 1
  /\ SumOf(acc.Q0) = 1 /\ SumOf(acc.P0) = 1
  /\ kthresh = Val(PRTHRESH)

\* the permutations of 1..n
Perms(n) == {f \in [1..n -> 1..n] : \A a, b \in 1..n : a # b => f[a] # f[b]}

\* the pass over the points in the order f[1], f[2], ...
PermutedPass(f) ==
  fast_binned_stats([n \in 1..size |-> blidxs[f[n]]],
                    [n \in 1..size |-> capeidxs[f[n]]],
                    [n \in 1..size |-> subsatidxs[f[n]]],
                    [n \in 1..size |-> prdata[f[n]]],
                    nblbins, ncapebins, nsubsatbins, kthresh)

SameCounts(a, b) ==
  a.Q0 = b.Q0 /\ a.QE = b.QE /\ a.P0 = b.P0 /\ a.PE = b.PE

\* two float64 sums that differ by rounding at most
NearSum(x, y) == FCmp(FAbs(FSub(x, y)), StepTol) < 0

NearSums(a, b) ==
  /\ DOMAIN a.Q1 = DOMAIN b.Q1 /\ DOMAIN a.P1 = DOMAIN b.P1
  /\ \A k \in DOMAIN a.Q1 : NearSum(a.Q1[k], b.Q1[k])
  /\ \A c \in DOMAIN a.P1 : NearSum(a.P1[c], b.P1[c])

\* C12 as stated: the pass over the permuted points returns the very same
\* six arrays.
C12_PermutationIdentical ==
  pc = "returned" => \A f \in Perms(size) : PermutedPass(f) = acc

\* C12 amended: the pass over the permuted points returns the same counts
\* Q0, QE, P0, PE, and sums Q1, P1 that differ from the unpermuted ones by
\* the rounding of the float64 additions at most; in every bin with up to
\* two values the sums are the very same.
C12_PermutationSameCounts ==
  pc = "returned" =>
    \A f \in Perms(size) :
      /\ SameCounts(PermutedPass(f), acc)
      /\ NearSums(PermutedPass(f), acc)
      /\ \A k \in DOMAIN acc.Q1 :
           acc.Q0[k] <= 2 => PermutedPass(f).Q1[k] = acc.Q1[k]
      /\ \A c \in DOMAIN acc.P1 :
           acc.P0[c] <= 2 => PermutedPass(f).P1[c] = acc.P1[c]

\* three values in one bin whose sum depends on their order
C12_Witness ==
  /\ pc = "returned" /\ size = 3
  /\ acc.Q0[0] = 3
  /\ \E f \in Perms(size) :
       /\ PermutedPass(f).Q1[0] # acc.Q1[0]
       /\ SameCounts(PermutedPass(f), acc)

-----------------------------------------------------------------------------
(* The kernel run chunk by chunk and the results merged (SpecChunks).      *)

\* the single pass over all the points
SinglePass ==
  fast_binned_stats(blidxs, capeidxs, subsatidxs, prdata,
                    nblbins, ncapebins, nsubsatbins, kthresh)

\* the sums of a and b are the very same in every bin that counts up to two
\* values
SameSumsWhereFew(a, b) ==
  /\ \A k \in DOMAIN b.Q1 : b.Q0[k] <= 2 => a.Q1[k] = b.Q1[k]
  /\ \A c \in DOMAIN b.P1 : b.P0[c] <= 2 => a.P1[c] = b.P1[c]

\* the chunk calls have interleaved: a call took an iteration between two
\* iterations of another call
Interleaved ==
  \E x, y, z \in 1..Len(called) :
    x < y /\ y < z /\ called[x] = called[z] /\ called[y] # called[x]

\* C13 as stated: the kernel run on each chunk, in any order or
\* interleaving, and the results added elementwise give exactly the
\* accumulators of the single pass.
C13_ChunksIdentical ==
  pc = "reduced" => acc = SinglePass

\* C13 amended: the kernel run on each chunk, in any order or interleaving,
\* and the results added elementwise in any order give the counts Q0, QE,
\* P0, PE of the single pass, and sums Q1, P1 that differ from those of the
\* single pass by the rounding of the float64 additions at most; in every
\* bin with up to two values the sums are the very same.
C13_ChunksSameCounts ==
  pc = "reduced" =>
    /\ SameCounts(acc, SinglePass)
    /\ NearSums(acc, SinglePass)
    /\ SameSumsWhereFew(acc, SinglePass)

\* three values of one bin, split in two chunks whose calls interleaved and
\* whose merged sum is not the sum of the single pass
C13_Witness ==
  /\ pc = "reduced" /\ size = 3 /\ Interleaved
  /\ SinglePass.P0[<<0, 0>>] = 3
  /\ acc.P1[<<0, 0>>] # SinglePass.P1[<<0, 0>>]
  /\ SameCounts(acc, SinglePass)

-----------------------------------------------------------------------------
(* The product of process_by_subregion (SpecProcess).                      *)

\* the record of region number a and month number b of the product
RecordAt(a, b) == product.items[a].items[b]

\* the product has a slice for every region and every month
Complete ==
  /\ Len(product.items) = Len(regions)
  /\ \A a \in 1..Len(regions) : Len(product.items[a].items) = Len(months)

\* the points of the input Dataset in the box of region number a and in month
\* number b
IsolatedSubset(a, b) ==
  LET box == REGIONS[CHOOSE n \in 1..Len(REGIONS) : REGIONS[n].key = regions[a].key]
  IN  SelectSeq(dataset, LAMBDA p : /\ box.latmin <= p.lat /\ p.lat <= box.latmax
                                    /\ box.lonmin <= p.lon /\ p.lon <= box.lonmax
                                    /\ p.month = months[b])

\* C14: in the product, the record at (region, month) is the one
\* calc_binned_stats gives on that subset alone, for every configured region
\* and month.
C14_SliceIsIsolatedRecord ==
  pc = "product" =>
    /\ Complete
    /\ \A a \in 1..Len(regions), b \in 1..Len(months) :
         RecordAt(a, b) \in
           calc_binned_stats(IsolatedSubset(a, b), binparams, prthresh)

\* two regions, three months, and two subsets whose records differ
C14_Witness ==
  /\ pc = "product" /\ regions = TwoRegions /\ months = MONTHS
  /\ binparams = SmallParams
  /\ RecordAt(1, 1) # RecordAt(2, 1)
  /\ RecordAt(1, 1) # RecordAt(1, 2)
  /\ SumOf(RecordAt(2, 1).Q0) >= 1

\* C15: the region axis of the product has one label per configured region,
\* the month axis one label per configured month, both in configured order.
C15_AxesFollowConfiguration ==
  pc = "product" =>
    /\ product.dim = "region"
    /\ product.labels = [a \in 1..Len(regions) |-> regions[a].key]
    /\ Len(product.items) = Len(regions)
    /\ \A a \in 1..Len(regions) :
         /\ product.items[a].dim = "month"
         /\ product.items[a].labels = months
         /\ Len(product.items[a].items) = Len(months)

\* months configured as 7, 6
C15_Witness ==
  /\ pc = "product" /\ months = <<7, 6>>
  /\ product.labels = <<"A", "B">>
  /\ product.items[2].labels = <<7, 6>>

\* a bin width <= 0, no region, no month, or a region box with latmin >
\* latmax or lonmin > lonmax
ConfigError ==
  \/ \E k \in {"bl", "cape", "subsat"} : binparams[k].width[1] <= 0
  \/ regions = <<>>
  \/ months = <<>>
  \/ \E a \in 1..Len(REGIONS) : \/ REGIONS[a].latmin > REGIONS[a].latmax
                                \/ REGIONS[a].lonmin > REGIONS[a].lonmax

\* C16: with a configuration error no subset is ever selected, the builder is
\* never called and no product is returned.
C16_ConfigErrorFatalAtStartup ==
  (caller = "process" /\ ConfigError) =>
    regionpos = 0 /\ calls = 0 /\ pc # "product"

\* C18: once a builder call has raised, the run has failed: no later builder
\* call is made and no product is returned; a product that is returned has
\* every region and month slice.
C18_FailureAbortsRun ==
  /\ (failat # 0 /\ calls >= failat) =>
       (pc = "raised" /\ product = NoProduct /\ calls = failat)
  /\ pc = "raised" => product = NoProduct
  /\ pc = "product" => Complete

\* the builder raises on a subset of the second region
C18_Witness ==
  /\ pc = "raised" /\ failat = calls /\ Len(regionstatslist) = 1
  /\ regionpos = 2 /\ product = NoProduct

\* C19: all the records of a product carry the same edges; in each record
\* the edges are those of the run's BinSpecifications, the arrays have one
\* bin per edge, and the 1-D counts are those of the indices computed from
\* the same BinSpecifications.
C19_SharedEdges ==
  pc = "product" =>
    \A a \in 1..Len(regions), b \in 1..Len(months) :
      LET rec == RecordAt(a, b) IN
        /\ \A k \in {"bl", "cape", "subsat"} :
             /\ rec[k] = RecordAt(1, 1)[k]
             /\ Len(rec[k]) >= 1 => rec[k][1] = Val(binparams[k].min)
             /\ \A n \in 1..(Len(rec[k]) - 1) :
                  StepIsWidth(rec[k][n], rec[k][n + 1], binparams[k])
        /\ DOMAIN rec.Q0 = 0..(Len(rec.bl) - 1)
        /\ DOMAIN rec.P0 = (0..(Len(rec.subsat) - 1)) \X (0..(Len(rec.cape) - 1))
        /\ \A x \in DOMAIN rec.Q0 :
             rec.Q0[x] =
               Cardinality({n \in 1..Len(IsolatedSubset(a, b)) :
                  /\ IsolatedSubset(a, b)[n].pr[2] # 0
                  /\ x \in blidxOf(Val(IsolatedSubset(a, b)[n].bl), binparams)})

\* a product of six records on three bl edges, with points counted
C19_Witness ==
  /\ pc = "product" /\ Len(regions) = 2 /\ Len(months) = 3
  /\ Len(RecordAt(2, 3).bl) = 3
  /\ RecordAt(2, 3).bl = RecordAt(1, 1).bl
  /\ \E a \in 1..2, b \in 1..3 : SumOf(RecordAt(a, b).Q0) >= 1

-----------------------------------------------------------------------------
(* The kernel on arrays of different lengths (SpecMisaligned).             *)

\* the index arrays and prdata do not all have one length
UnequalLengths ==
  \/ Len(blidxs) # Len(prdata)
  \/ Len(capeidxs) # Len(prdata)
  \/ Len(subsatidxs) # Len(prdata)

\* C17: given input arrays of unequal length the kernel fails before any
\* point is accumulated: it never returns and no count is ever raised.
C17_UnequalLengthsFail ==
  (caller = "arrays" /\ UnequalLengths) =>
    /\ pc # "returned"
    /\ acc # NoAcc => (SumOf(acc.Q0) = 0 /\ SumOf(acc.P0) = 0)

-----------------------------------------------------------------------------
(* Builder invocations side by side (SpecParallel).                        *)

\* C20: whatever the interleaving of the subsets' builder invocations, the
\* product is one the sequential loops return; a step writes the
\* accumulators, position and record of one task only, and never the input
\* Dataset, the region table or the bin specifications; a task's arrays
\* count no more points than the task itself has processed.
C20_ParallelEqualsSequential ==
  [][/\ pc' = "product" =>
          product' \in process_by_subregion(dataset, months, regions, REGIONS,
                                            binparams, prthresh)
     /\ dataset' = dataset /\ binparams' = binparams /\ REGIONS' = REGIONS
     /\ \A t, u \in Pairs :
          (t # u /\ tasks'[t] # tasks[t]) => tasks'[u] = tasks[u]
     /\ \A t \in Pairs :
          tasks'[t].acc # NoAcc =>
            /\ SumOf(tasks'[t].acc.Q0) <= tasks'[t].i
            /\ SumOf(tasks'[t].acc.P0) <= tasks'[t].i]_vars

\* a product of four tasks with points counted in two of them
C20_Witness ==
  /\ pc = "product" /\ caller = "parallel" /\ months = <<7, 6>>
  /\ SumOf(RecordAt(1, 1).Q0) >= 1
  /\ SumOf(RecordAt(2, 2).Q0) >= 1
  /\ RecordAt(1, 1) # RecordAt(2, 1)

-----------------------------------------------------------------------------
(* The subsets and the builder calls of process_by_subregion               *)
(* (SpecProcess).                                                          *)

\* the positions in the input Dataset of the grid points inside the box of
\* the region named k, at a time step of calendar month m
InSubset(k, m) ==
  {n \in 1..Len(dataset) :
     /\ Lookup(regions, k).latmin <= dataset[n].lat
     /\ dataset[n].lat <= Lookup(regions, k).latmax
     /\ Lookup(regions, k).lonmin <= dataset[n].lon
     /\ dataset[n].lon <= Lookup(regions, k).lonmax
     /\ dataset[n].month = m}

\* C21: the subset given to the builder for (region, month) holds a grid
\* point if and only if the point lies inside the region's box (both ends
\* included) at a time step of that calendar month, each such point once.
C21_SubsetMembership ==
  (caller = "process" /\ calls >= 1) =>
    LET k == called[calls][1]
        m == called[calls][2]
    IN  /\ {monthdata[n] : n \in 1..Len(monthdata)} =
             {dataset[n] : n \in InSubset(k, m)}
        /\ Len(monthdata) = Cardinality(InSubset(k, m))

\* a subset of two points: two more points of the box are of another month,
\* and points of that month lie outside the box
C21_Witness ==
  /\ caller = "process" /\ calls >= 1 /\ REGIONS = TwoRegions
  /\ Len(monthdata) = 2 /\ Len(regiondata) = 4
  /\ \E n \in 1..Len(dataset) :
       /\ dataset[n].month = called[calls][2]
       /\ n \notin InSubset(called[calls][1], called[calls][2])

\* the builder calls of a whole run: region after region in configured
\* order, and inside each region month after month in configured order
ExpectedCalls ==
  [n \in 1..(Len(regions) * Len(months)) |->
     <<regions[((n - 1) \div Len(months)) + 1].key,
       months[((n - 1) % Len(months)) + 1]>>]

\* the steps a run has left at most: every region still to come costs its
\* selection, one builder call per month and the concat of its months
StepsLeft ==
  LET perRegion == Len(months) + 2
      regionsLeft == (Len(regions) - regionpos) * perRegion
  IN  CASE pc = "pbs"    -> regionsLeft + 2
        [] pc = "region" -> regionsLeft + 1
        [] pc = "month"  -> regionsLeft + (Len(months) - monthpos) + 2
        [] OTHER         -> 0

\* the run can take a step: one of the loop steps is enabled, or the month
\* loop has a month left and the builder call has an outcome
CanStep ==
  \/ ENABLED (ProcessStart \/ NextRegion \/ ConcatMonths \/ ConcatRegions)
  \/ /\ pc = "month" /\ monthpos < Len(months)
     /\ \/ calls + 1 = failat
        \/ calc_binned_stats(SelMonth(regiondata, ForNext(months, monthpos)),
                             binparams, prthresh) # {}

\* the bin edges of the run cannot be derived: every builder call raises
EdgesRaise ==
  \E k \in {"bl", "cape", "subsat"} : Raises(get_bin_edges(k, binparams))

\* C22: the builder calls made so far are the first calls of the configured
\* (region, month) order, one call per pair.  A run ends, and with at least
\* one region and one month and no builder call that raises it ends with a
\* product after exactly |regions| x |months| calls: every step lowers the
\* number of steps left, a run that has neither returned nor raised can
\* take a step, and such a run never raises.
C22_OncePerPairInOrder ==
  /\ [](/\ calls = Len(called)
        /\ calls <= Len(ExpectedCalls)
        /\ called = SubSeq(ExpectedCalls, 1, calls)
        /\ pc \notin {"product", "raised"} => CanStep
        /\ pc = "product" =>
             (called = ExpectedCalls /\ calls = Len(regions) * Len(months))
        /\ (failat = 0 /\ ~EdgesRaise /\ regions # <<>> /\ months # <<>>) =>
             pc # "raised")
  /\ [][StepsLeft' < StepsLeft /\ StepsLeft' >= 0]_vars

\* a finished run of two regions and months 7, 6: four calls
C22_Witness ==
  /\ pc = "product" /\ months = <<7, 6>>
  /\ called = <<<<"A", 7>>, <<"A", 6>>, <<"B", 7>>, <<"B", 6>>>>

-----------------------------------------------------------------------------
(* The earlier revision's loop against the kernel (SpecRevisions).         *)

\* the sums, in array order, of the squares of the values of pts, each
\* square one of the values prval**2 can have
RECURSIVE SumSquares(_, _)
SumSquares(sums, pts) ==
  IF pts = <<>> THEN sums
  ELSE SumSquares({FAdd(sum, sq) : sum \in sums, sq \in Pow2(Head(pts).prval)},
                  Tail(pts))

\* C23: on the same arrays, bin counts and threshold, the triple loop of the
\* earlier revision and the kernel end with identical Q0, QE, Q1, P0, PE and
\* P1; the earlier revision's Q2 and P2 are the sums of the squared values
\* of the points counted in Q0 and P0.
C23_LoopEqualsKernel ==
  (caller = "revisions" /\ pc = "returned") =>
    /\ \A name \in {"Q0", "QE", "Q1", "P0", "PE", "P1"} :
         nested.arr[name] = acc[name]
    /\ \A b \in DOMAIN nested.arr.Q2 :
         nested.arr.Q2[b] \in
           SumSquares({FZero}, SelectSeq(Flat(grid),
                        LAMBDA p : p.blidx = b /\ IsFinite(p.prval)))
    /\ \A c \in DOMAIN nested.arr.P2 :
         nested.arr.P2[c] \in
           SumSquares({FZero}, SelectSeq(Flat(grid),
                        LAMBDA p : /\ <<p.subsatidx, p.capeidx>> = c
                                   /\ IsFinite(p.prval)))

\* both have run over a 1 x 2 x 2 array whose sum of bin 0 is not the sum
\* of the same values in another order
C23_Witness ==
  /\ caller = "revisions" /\ pc = "returned"
  /\ Len(grid) = 1 /\ Len(grid[1]) = 2 /\ Len(grid[1][1]) = 2
  /\ acc.Q0[0] = 3
  /\ acc.Q1[0] = FAdd(FAdd(Val(<<3, 10>>), Val(<<2, 10>>)), Val(<<1, 10>>))
  /\ acc.Q1[0] # FAdd(FAdd(Val(<<3, 10>>), Val(<<1, 10>>)), Val(<<2, 10>>))
  /\ acc.P0[<<0, 0>>] = 2
  /\ nested.arr.Q2[0] # FZero

-----------------------------------------------------------------------------
(* The threshold of calc_binned_stats (Spec).                              *)

\* C24: QE and PE of the Dataset calc_binned_stats returns count the points
\* whose precipitation exceeds the prthresh passed to calc_binned_stats, the
\* threshold named in their long_name.
C24_PassedThresholdCounts ==
  pc = "done" =>
    /\ \A b \in DOMAIN ds.QE :
         ds.QE[b] =
           Cardinality({n \in 1..size :
              /\ blidxs[n] = b /\ IsFinite(prdata[n])
              /\ FGreater(prdata[n], Val(ds.long_name_threshold))})
    /\ \A c \in DOMAIN ds.PE :
         ds.PE[c] =
           Cardinality({n \in 1..size :
              /\ <<subsatidxs[n], capeidxs[n]>> = c /\ IsFinite(prdata[n])
              /\ FGreater(prdata[n], Val(ds.long_name_threshold))})

-----------------------------------------------------------------------------
(* process_by_subregion with a regions argument (SpecPassed).              *)

\* C25: the data selected for a region are the grid points inside the box
\* that the regions passed to the run give for it, and the run does not
\* fail for a region the passed table has.
C25_PassedBoxSelects ==
  /\ (caller = "process" /\ regionpos >= 1) =>
       {regiondata[n] : n \in 1..Len(regiondata)} =
         {dataset[n] : n \in
            {x \in 1..Len(dataset) :
               /\ regions[regionpos].latmin <= dataset[x].lat
               /\ dataset[x].lat <= regions[regionpos].latmax
               /\ regions[regionpos].lonmin <= dataset[x].lon
               /\ dataset[x].lon <= regions[regionpos].lonmax}}
  /\ (caller = "process" /\ failat = 0 /\ regions # <<>> /\ months # <<>>) =>
       pc # "raised"

\* the cells of an accumulator that an iteration changed
Written(old, new) == {c \in DOMAIN old : new[c] # old[c]}

\* C26: in a pass started by the builder the bin counts are the edge counts
\* of the matching axes and the shapes of the accumulators never change; an
\* iteration whose point passes the kernel's 1-D test writes at a 1-D index
\* inside Q0, QE and Q1, an iteration whose point passes the 2-D test writes
\* at (subsat index, cape index) inside P0, PE and P1, the subsat index below
\* the subsat edge count and the cape index below the cape edge count, and an
\* iteration changes no cell but the one its point indexes.
C26_WritesInsideArrays ==
  [][(pc = "loop" /\ caller = "builder" /\ i' = i + 1) =>
       LET p == pt' IN
       /\ nblbins = Len(bins.bl) /\ ncapebins = Len(bins.cape)
       /\ nsubsatbins = Len(bins.subsat)
       /\ \A f \in {"Q0", "QE", "Q1", "P0", "PE", "P1"} :
            DOMAIN acc'[f] = DOMAIN acc[f]
       /\ \A f \in {"Q0", "QE", "Q1"} :
            /\ DOMAIN acc[f] = 0..(Len(bins.bl) - 1)
            /\ Written(acc[f], acc'[f]) \subseteq {p.blidx}
       /\ \A f \in {"P0", "PE", "P1"} :
            /\ DOMAIN acc[f] = (0..(Len(bins.subsat) - 1)) \X (0..(Len(bins.cape) - 1))
            /\ Written(acc[f], acc'[f]) \subseteq {<<p.subsatidx, p.capeidx>>}
       /\ (ValidBl(p.blidx, nblbins) /\ IsFinite(p.prval)) =>
            /\ 0 <= p.blidx /\ p.blidx < Cardinality(DOMAIN acc.Q0)
            /\ Written(acc.Q0, acc'.Q0) = {p.blidx}
       /\ (Valid2D(p.subsatidx, p.capeidx, nsubsatbins, ncapebins) /\ IsFinite(p.prval)) =>
            /\ 0 <= p.subsatidx /\ p.subsatidx < Len(bins.subsat)
            /\ 0 <= p.capeidx /\ p.capeidx < Len(bins.cape)
            /\ <<p.subsatidx, p.capeidx>> \in DOMAIN acc.P0
            /\ Written(acc.P0, acc'.P0) = {<<p.subsatidx, p.capeidx>>}
  ]_vars

\* a pass of the builder over axes of different edge counts that counted a
\* point in the last subsat row, whose index is no cape index, and a point
\* in the last 1-D bin
C26_Witness ==
  /\ pc = "loop" /\ caller = "builder" /\ i = 2
  /\ ncapebins # nsubsatbins
  /\ pt.subsatidx = nsubsatbins - 1 /\ pt.subsatidx >= ncapebins
  /\ pt.capeidx = ncapebins - 1
  /\ acc.P0[<<pt.subsatidx, pt.capeidx>>] = 1
  /\ acc.Q0[nblbins - 1] = 1

\* whether the cast has no defined result for a: a is missing or infinite, or
\* lies outside the 32-bit signed integers
Unrepresentable(a) ==
  \/ ~IsFinite(a)
  \/ ~FGreater(FAdd(Val(<<Int32Max, 1>>), Val(<<1, 1>>)), a)
  \/ ~FGreater(a, FSub(Val(<<-Int32Max, 1>>), Val(<<2, 1>>)))

\* the points of the subset whose value on the axis has no defined cast
UnrepresentableOn(axis) ==
  {n \in 1..Len(data) : Unrepresentable(Scaled(Val(data[n][axis]), binparams[axis]))}

\* C27: a point whose value on an axis is missing or infinite, or whose
\* scaled offset lies outside the 32-bit signed integers, has an index outside
\* the bins of that axis after the cast, and the accumulators of the axis
\* count at most the other points.
C27_UnrepresentableNeverBinned ==
  (caller = "builder" /\ pc \in {"enter", "loop", "returned", "done"}) =>
    /\ \A n \in UnrepresentableOn("bl") : ~ValidBl(blidxs[n], nblbins)
    /\ \A n \in UnrepresentableOn("cape") \cup UnrepresentableOn("subsat") :
         ~Valid2D(subsatidxs[n], capeidxs[n], nsubsatbins, ncapebins)
    /\ pc \in {"returned", "done"} =>
         /\ SumOf(acc.Q0) <= Len(data) - Cardinality(UnrepresentableOn("bl"))
         /\ SumOf(acc.P0) <= Len(data) - Cardinality(UnrepresentableOn("cape")
                                                      \cup UnrepresentableOn("subsat"))

-----------------------------------------------------------------------------
(* Subsets without points (SpecProcess).                                   *)

\* rec has the full edges of binparams and six accumulators that hold zeros
ZeroRecord(rec) ==
  /\ rec.set
  /\ \A k \in {"bl", "cape", "subsat"} : rec[k] = get_bin_edges(k, binparams)
  /\ DOMAIN rec.Q0 = 0..(Len(rec.bl) - 1)
  /\ DOMAIN rec.P0 = (0..(Len(rec.subsat) - 1)) \X (0..(Len(rec.cape) - 1))
  /\ \A f \in {"Q0", "QE"} : rec[f] = [b \in DOMAIN rec.Q0 |-> 0]
  /\ rec.Q1 = [b \in DOMAIN rec.Q0 |-> FZero]
  /\ \A f \in {"P0", "PE"} : rec[f] = [c \in DOMAIN rec.P0 |-> 0]
  /\ rec.P1 = [c \in DOMAIN rec.P0 |-> FZero]

\* C28: a builder call on a subset without points returns a record of six
\* zero accumulators on the full edges and the month loop goes on; a run
\* whose builder does not fail (the edges can be derived, no other failure)
\* and whose lists are not empty never raises,
\* and its product has a slice for every region and every month, the slices
\* of the subsets without points being such zero records.
C28_EmptySubsetGivesZeros ==
  (caller = "process" /\ failat = 0) =>
    /\ (pc = "month" /\ monthpos >= 1 /\ monthdata = <<>>) =>
         /\ Len(monthstatslist) = monthpos
         /\ ZeroRecord(monthstatslist[monthpos].items[1])
    /\ pc = "raised" => (months = <<>> \/ regions = <<>> \/ EdgesRaise)
    /\ pc = "product" =>
         /\ Complete
         /\ \A a \in 1..Len(regions), b \in 1..Len(months) :
              IsolatedSubset(a, b) = <<>> => ZeroRecord(RecordAt(a, b))

\* a product over a region whose box holds no grid point and a month without
\* time steps, next to a subset with counted points
C28_Witness ==
  /\ pc = "product" /\ failat = 0 /\ binparams = SmallParams
  /\ regions = BadBoxRegions /\ months = MONTHS
  /\ \A b \in 1..3 : IsolatedSubset(1, b) = <<>> /\ ZeroRecord(RecordAt(1, b))
  /\ \A n \in 1..Len(dataset) : dataset[n].month # months[3]
  /\ ZeroRecord(RecordAt(2, 3))
  /\ SumOf(RecordAt(2, 1).Q0) >= 1

-----------------------------------------------------------------------------
(* Points and month records of a region (SpecProcess).                     *)

\* whether the list q has no element twice
NoDuplicates(q) == \A a, b \in 1..Len(q) : a # b => q[a] # q[b]

\* the points of the input in the box of region number a
InBox(a) ==
  LET box == REGIONS[CHOOSE n \in 1..Len(REGIONS) : REGIONS[n].key = regions[a].key]
  IN  {n \in 1..Len(dataset) :
         /\ box.latmin <= dataset[n].lat /\ dataset[n].lat <= box.latmax
         /\ box.lonmin <= dataset[n].lon /\ dataset[n].lon <= box.lonmax}

\* the points of the input with finite precipitation, a 1-D index inside the
\* bl edges and a calendar month of the month list
Countable ==
  {n \in 1..Len(dataset) :
     /\ IsFinite(Val(dataset[n].pr))
     /\ \A x \in blidxOf(Val(dataset[n].bl), binparams) :
          ValidBl(x, Len(get_bin_edges("bl", binparams)))
     /\ \E b \in 1..Len(months) : months[b] = dataset[n].month}

\* the sum over the month axis of Q0 of region number a
RegionCount(a) ==
  SumOf([b \in 1..Len(months) |-> SumOf(RecordAt(a, b).Q0)])

\* the number of month records of region number a that count point n
RecordsCounting(a, n) ==
  Cardinality({b \in 1..Len(months) :
                 /\ months[b] = dataset[n].month
                 /\ n \in InBox(a) \cap Countable})

\* C29: with a month list without duplicates, every point is counted in the
\* record of at most one month of a region, the sum over the months of Q0 of
\* a region is the number of its points with finite precipitation, in-range
\* 1-D index and month in the list, and a point in the boxes of two regions
\* is in the count of both.
C29_RegionCountsPoints ==
  (pc = "product" /\ NoDuplicates(months)) =>
    /\ \A a \in 1..Len(regions) :
         /\ RegionCount(a) = Cardinality(InBox(a) \cap Countable)
         /\ \A n \in 1..Len(dataset) : RecordsCounting(a, n) <= 1
    /\ \A a, c \in 1..Len(regions) : \A n \in InBox(a) \cap InBox(c) \cap Countable :
         \E b \in 1..Len(months) :
           /\ months[b] = dataset[n].month
           /\ \A x \in blidxOf(Val(dataset[n].bl), binparams) :
                RecordAt(a, b).Q0[x] >= 1 /\ RecordAt(c, b).Q0[x] >= 1

\* a product of two overlapping regions over three months: a counted point
\* lies in both boxes, and the first region counts points of two months
C29_Witness ==
  /\ pc = "product" /\ regions = TwoRegions /\ months = MONTHS
  /\ InBox(1) \cap InBox(2) \cap Countable # {}
  /\ SumOf(RecordAt(1, 1).Q0) >= 1 /\ SumOf(RecordAt(1, 2).Q0) >= 1
  /\ RegionCount(1) >= 2 /\ RegionCount(2) >= 1
  /\ Cardinality(InBox(1)) > RegionCount(1)

-----------------------------------------------------------------------------
(* The last bin of a 2-D axis (SpecEdges).                                 *)

\* an axis of the 2-D scheme whose span is a whole number of widths, and a
\* value binned on it
WholeAxisIndexed ==
  pc = "indexed" /\ key \in {"cape", "subsat"} /\ WholeSpan(binparams[key])

\* the value lies inside [min, max]
InsideAxis(v, varname) ==
  FCmp(Val(varname.min), Val(v)) <= 0 /\ FCmp(Val(v), Val(varname.max)) <= 0

\* the value is at least max + width/2, up to rounding
BeyondHalfWidth(v, varname) ==
  FCmp(Val(v), FSub(FAdd(Val(varname.max),
                         FDiv(Val(varname.width), Val(<<2, 1>>))),
                    StepTol)) > 0

\* C30 as stated: on a 2-D axis whose span is a whole number of widths no
\* value inside [min, max] gets the last index nbins - 1, the value max gets
\* nbins - 2, and only values of at least max + width/2 get nbins - 1.
C30_MaxInLastButOne ==
  WholeAxisIndexed =>
    /\ InsideAxis(probe, binparams[key]) => idx # Len(edges) - 1
    /\ probe = binparams[key].max => idx = Len(edges) - 2
    /\ idx = Len(edges) - 1 => BeyondHalfWidth(probe, binparams[key])

\* C30 amended: on such an axis no value inside [min, max] gets the last
\* index nbins - 1; the value max gets index (max - min)/width - 1, which is
\* nbins - 2, or nbins - 3 when rounding gave the axis one more edge; and only
\* values of at least max + width/2 (up to rounding) get index nbins - 1.
C30_MaxBelowLastBin ==
  WholeAxisIndexed =>
    /\ InsideAxis(probe, binparams[key]) => idx < Len(edges) - 1
    /\ probe = binparams[key].max =>
         /\ idx = SpanFloor(binparams[key]) - 1
         /\ idx \in {Len(edges) - 2, Len(edges) - 3}
    /\ idx = Len(edges) - 1 => BeyondHalfWidth(probe, binparams[key])

\* the value max + width/2 binned into the last bin of the notebook's cape
\* axis, whose span is 90 widths
C30_Witness ==
  /\ WholeAxisIndexed /\ binparams = BINPARAMS /\ key = "cape"
  /\ probe = <<41, 2>> /\ ~InsideAxis(probe, binparams[key])
  /\ Len(edges) = 91 /\ idx = 90

====
